---- MODULE Spec2Model ----
(***************************************************************************)
(* Ticket lifecycle engine of PMS: TicketsController (the status state     *)
(* machine, the audit trail, the notification fan-out), UsersController's  *)
(* activation switch and the EF Core store they share.                     *)
(*                                                                         *)
(* Spec      every handler runs alone, from its first read to its last     *)
(*           SaveChanges (one request at a time).                          *)
(* SpecConc  two requests in flight; a handler is cut at its awaits        *)
(*           (read, SaveChanges of the ticket, SaveChanges of the history  *)
(*           row, notification rows) and the process may stop in between.  *)
(* SpecScenario  the life of one ticket from create to close.              *)
(* SpecInbox the ticket requests with NotificationsController's marks.     *)
(* SpecList  NotificationsController on a long Notifications table.        *)
(* SpecPush  one request at a time, its notifications cut at their awaits, *)
(*           with NotificationHub's groups and awaits that throw.          *)
(* SpecClient  the useNotifications hook of the web client: its fetches    *)
(*           cut at their awaits, the hub's pushes, drops and reconnects.  *)
(* SpecClientLive  SpecClient where a call that was sent is served and     *)
(*           its answer (or its failure) is delivered.                     *)
(***************************************************************************)
EXTENDS Integers, Sequences, FiniteSets, TLC

\* ------------------------------------------------------------------ bounds
\* Accepted requests explored: history rows written plus changes of a
\* user's status.
MaxWrites == 4

\* ------------------------------------------------------------- C# null
\* A null int? / DateTime? column (AssignedDeveloperId, ClosedAt, ...).
Null == -1
\* A null string (Comments, SatisfactionComment, OldValue).
NullStr == "<null>"

\* ------------------------------------------------------------------- users
UserRole == {"Admin", "Developer", "EndUser"}

\* The Users table: roles never change (no endpoint writes User.Role).
Users ==
  [u \in 1..6 |->
     CASE u = 1 -> [Role |-> "Admin", Name |-> "Admin1"]
       [] u = 2 -> [Role |-> "Admin", Name |-> "Admin2"]
       [] u = 3 -> [Role |-> "Developer", Name |-> "Dev1"]
       [] u = 4 -> [Role |-> "Developer", Name |-> "Dev2"]
       [] u = 5 -> [Role |-> "EndUser", Name |-> "User1"]
       [] u = 6 -> [Role |-> "EndUser", Name |-> "User2"]]

UserIds == DOMAIN Users
\* Callers whose accepted requests make the steps (users 2 and 6 only
\* receive, read, and have their requests refused or checked in place).
Callers == {1, 3, 4, 5}
\* Developer ids a request may name: two developers, a requester, nobody.
DeveloperIdInputs == {3, 4, 5, 9}
\* Users whose IsActive flag the admin switches.
StatusTargets == {2}

\* The Projects table: project 1 active, project 2 inactive, 3 missing.
Projects == [p \in 1..2 |-> [IsActive |-> (p = 1)]]
ProjectIdInputs == {1, 2, 3}

TicketStatus == {"Open", "InProgress", "Resolved", "Reopened", "Closed"}
TicketType == {"Bug", "Feature"}
TicketPriority == {"Low", "Medium", "High", "Critical"}

VARIABLES
  tickets,        \* Tickets table: sequence of rows, row i has Id = i
  history,        \* TicketHistories table, in insertion order
  notifications,  \* Notifications table, in insertion order
  messages,       \* TicketMessages table, in insertion order
  active,         \* User.IsActive, per user id
  clock,          \* the last value DateTime.UtcNow returned
  last,           \* the last accepted request to TicketsController
  userUpdates,     \* how many times a user's status was set
  reqs,           \* the requests being handled, by connection
  online,         \* NotificationHub: the users in their group user_<id>
  pushed,         \* the ReceiveNotification messages clients were sent
  client          \* useNotifications in the browser of one user

vars ==
  <<tickets, history, notifications, messages, active, clock, last,
    userUpdates, reqs, online, pushed, client>>

\* GetCurrentUserRole: the role claim of the caller's token.
GetCurrentUserRole(userId) == Users[userId].Role

\* [Authorize(Roles = "...")] on an endpoint.
Authorize(userId, roles) == GetCurrentUserRole(userId) \in roles

\* string.IsNullOrEmpty in its place: a blank string passes.
IsNullOrWhiteSpace_NullOrEmpty(s) == s \in {NullStr, ""}

\* string.IsNullOrWhiteSpace over the strings the requests carry.
IsNullOrWhiteSpace(s) == s \in {NullStr, "", " ", "  "}

\* _context.Tickets.FindAsync(id): the row, or none.
TicketExists(id) == id \in 1..Len(tickets)

\* ------------------------------------------------------------ the outcome
\* of a handler's read-and-validate part: an error result, or the tracked
\* entity as the handler changed it, the history row to add and the
\* notifications to create.
Fail(code, msg) == [code |-> code, msg |-> msg]

Plan(entity, action, oldValue, newValue, comments, notes) ==
  [code |-> "Ok", msg |-> "", entity |-> entity, action |-> action,
   oldValue |-> oldValue, newValue |-> newValue, comments |-> comments,
   notes |-> notes]

\* One notification to create: for a user, or for every active admin.
ToUser(userId, type, message) ==
  [admins |-> FALSE, userId |-> userId, type |-> type, message |-> message]
ToAdmins(type, message) ==
  [admins |-> TRUE, userId |-> Null, type |-> type, message |-> message]

\* GetAdminUserIds: the ids of the active admins, in id order.
RECURSIVE IdsInOrder(_, _)
IdsInOrder(S, from) ==
  IF from > 6 THEN <<>>
  ELSE IF from \in S THEN <<from>> \o IdsInOrder(S, from + 1)
  ELSE IdsInOrder(S, from + 1)

\* GetAdminUserIds without the IsActive filter.
GetAdminUserIds_Inactive ==
  IdsInOrder({u \in UserIds : Users[u].Role = "Admin"}, 1)

GetAdminUserIds ==
  IdsInOrder({u \in UserIds : Users[u].Role = "Admin" /\ active[u]}, 1)

\* ---------------------------------------------------------------- helpers
\* ValidateStatusTransition with the admin branch tested first: the admin
\* override also covers Closed tickets.
ValidateStatusTransition_AdminFirst(current, next, userRole) ==
  IF userRole = "Admin"
    THEN [IsValid |-> TRUE, Message |-> ""]
  ELSE IF current = "Closed"
    THEN [IsValid |-> FALSE, Message |-> "Cannot modify closed tickets"]
  ELSE IF userRole = "Developer"
          /\ \/ current = "InProgress" /\ next = "Resolved"
             \/ current = "Reopened" /\ next = "InProgress"
    THEN [IsValid |-> TRUE, Message |-> ""]
  ELSE [IsValid |-> FALSE,
        Message |-> "Invalid transition from " \o current \o " to " \o next]

\* ValidateStatusTransition letting the developer take back a resolved
\* ticket (Resolved -> InProgress).
ValidateStatusTransition_DevFromResolved(current, next, userRole) ==
  IF current = "Closed"
    THEN [IsValid |-> FALSE, Message |-> "Cannot modify closed tickets"]
  ELSE IF userRole = "Admin"
    THEN [IsValid |-> TRUE, Message |-> ""]
  ELSE IF userRole = "Developer"
          /\ \/ current = "InProgress" /\ next = "Resolved"
             \/ current \in {"Reopened", "Resolved"} /\ next = "InProgress"
    THEN [IsValid |-> TRUE, Message |-> ""]
  ELSE [IsValid |-> FALSE,
        Message |-> "Invalid transition from " \o current \o " to " \o next]

\* ValidateStatusTransition without the guard on Open tickets: the
\* developer may start work on an Open ticket (Open -> InProgress).
ValidateStatusTransition_DevFromOpen(current, next, userRole) ==
  IF current = "Closed"
    THEN [IsValid |-> FALSE, Message |-> "Cannot modify closed tickets"]
  ELSE IF userRole = "Admin"
    THEN [IsValid |-> TRUE, Message |-> ""]
  ELSE IF userRole = "Developer"
          /\ \/ current = "InProgress" /\ next = "Resolved"
             \/ current \in {"Reopened", "Open"} /\ next = "InProgress"
    THEN [IsValid |-> TRUE, Message |-> ""]
  ELSE [IsValid |-> FALSE,
        Message |-> "Invalid transition from " \o current \o " to " \o next]

\* ValidateStatusTransition(current, next, userRole).
ValidateStatusTransition(current, next, userRole) ==
  IF current = "Closed"
    THEN [IsValid |-> FALSE, Message |-> "Cannot modify closed tickets"]
  ELSE IF userRole = "Admin"
    THEN [IsValid |-> TRUE, Message |-> ""]
  ELSE IF userRole = "Developer"
    THEN IF current = "InProgress" /\ next = "Resolved"
           THEN [IsValid |-> TRUE, Message |-> ""]
         ELSE IF current = "Reopened" /\ next = "InProgress"
           THEN [IsValid |-> TRUE, Message |-> ""]
         ELSE IF current = "Open"
           THEN [IsValid |-> FALSE,
                 Message |->
                   "Developer cannot change Open tickets. Wait for assignment."]
         ELSE IF current = "Resolved"
           THEN [IsValid |-> FALSE,
                 Message |->
                   "Cannot change status of resolved ticket. Client must close or request changes."]
         ELSE [IsValid |-> FALSE,
        Message |-> "Invalid transition from " \o current \o " to " \o next]
  ELSE [IsValid |-> FALSE, Message |-> "Unauthorized to change status"]

\* AddHistory writing over the last row of the table.
AddHistory_ReplaceLast(rows, ticketId, action, oldValue, newValue, comments, userId, utcNow) ==
  Append(IF rows = <<>> THEN rows ELSE SubSeq(rows, 1, Len(rows) - 1),
         [Id |-> IF rows = <<>> THEN 1 ELSE Len(rows), TicketId |-> ticketId, Action |-> action,
          OldValue |-> oldValue, NewValue |-> newValue,
          Comments |-> comments, ChangedByUserId |-> userId,
          ChangedAt |-> utcNow])

\* AddHistory: one TicketHistory row, ChangedAt = DateTime.UtcNow.
AddHistory(rows, ticketId, action, oldValue, newValue, comments, userId, utcNow) ==
  Append(rows,
         [Id |-> Len(rows) + 1, TicketId |-> ticketId, Action |-> action,
          OldValue |-> oldValue, NewValue |-> newValue,
          Comments |-> comments, ChangedByUserId |-> userId,
          ChangedAt |-> utcNow])

\* CreateNotification adding the row twice.
CreateNotification_Twice(rows, userId, type, message, ticketId, utcNow) ==
  LET row(n) == [Id |-> n, UserId |-> userId, Type |-> type,
                 Message |-> message, RelatedTicketId |-> ticketId,
                 IsRead |-> FALSE, CreatedAt |-> utcNow]
  IN Append(Append(rows, row(Len(rows) + 1)), row(Len(rows) + 2))

\* CreateNotification: one Notification row, unread.
CreateNotification(rows, userId, type, message, ticketId, utcNow) ==
  Append(rows,
         [Id |-> Len(rows) + 1, UserId |-> userId, Type |-> type,
          Message |-> message, RelatedTicketId |-> ticketId,
          IsRead |-> FALSE, CreatedAt |-> utcNow])

\* CreateNotificationsForUsers: one row per id of the list, each with its
\* own DateTime.UtcNow, saved together. Returns the rows and the clock.
RECURSIVE CreateNotificationsForUsers(_, _, _, _, _, _)
CreateNotificationsForUsers(rows, userIds, type, message, ticketId, c) ==
  IF userIds = <<>> THEN [rows |-> rows, clock |-> c]
  ELSE CreateNotificationsForUsers(
         CreateNotification(rows, Head(userIds), type, message, ticketId, c + 1),
         Tail(userIds), type, message, ticketId, c + 1)

\* SaveChangesAsync of a tracked Ticket: EF Core writes the columns whose
\* value differs from the value read (there is no concurrency token), the
\* other columns of the row stay as the store has them.
SaveTicket(row, snapshot, entity) ==
  [f \in DOMAIN row |-> IF entity[f] # snapshot[f] THEN entity[f] ELSE row[f]]

\* ------------------------------------------------------- request inputs
StatusInputs == TicketStatus \cup {"Done"}
CommentInputs == {NullStr}
ReopenComments == {NullStr, "", " ", "still broken"}
ScoreInputs == {Null, 0, 5, 6}

UpdateTicketStatusDtos ==
  [Status : StatusInputs, Comments : CommentInputs]
CloseTicketDtos ==
  {[Comments |-> NullStr, SatisfactionScore |-> s,
    SatisfactionComment |-> IF s = Null THEN NullStr ELSE "thanks"] :
     s \in ScoreInputs}
CreateTicketDtos ==
  [ProjectId : ProjectIdInputs, Type : {"Bug", "Task"},
   Priority : {"Medium", "Urgent"}]

\* ------------------------------------------------------------- CreateTicket
\* The new Ticket entity; its Id is the next row number.
NewTicket(userId, dto, now) ==
  [Id |-> Len(tickets) + 1, Type |-> dto.Type, Priority |-> dto.Priority,
   Status |-> "Open", ProjectId |-> dto.ProjectId,
   CreatedByUserId |-> userId, AssignedDeveloperId |-> Null,
   CreatedAt |-> now, UpdatedAt |-> now, AssignedAt |-> Null,
   InProgressAt |-> Null, ResolvedAt |-> Null, ReopenedAt |-> Null,
   ClosedAt |-> Null, ReopenCount |-> 0, SatisfactionScore |-> Null,
   SatisfactionComment |-> NullStr, RatedAt |-> Null,
   IsArchived |-> FALSE, ArchivedAt |-> Null, ArchivedByUserId |-> Null]

\* CreateTicket without the check of the project.
CreateTicketPlan_AnyProject(userId, dto, now) ==
  IF ~Authorize(userId, {"EndUser", "Admin"}) THEN Fail("Forbidden", "")
  ELSE IF dto.Type \notin TicketType
    THEN Fail("BadRequest", "Invalid ticket type")
  ELSE IF dto.Priority \notin TicketPriority
    THEN Fail("BadRequest", "Invalid priority")
  ELSE Plan(NewTicket(userId, dto, now), "Created", NullStr, "Open",
            "Ticket created",
            <<ToAdmins("TicketCreated", "New ticket created")>>)

CreateTicketPlan(userId, dto, now) ==
  IF ~Authorize(userId, {"EndUser", "Admin"}) THEN Fail("Forbidden", "")
  ELSE IF dto.ProjectId \notin DOMAIN Projects
          \/ ~Projects[dto.ProjectId].IsActive
    THEN Fail("BadRequest", "Project not found or inactive")
  ELSE IF dto.Type \notin TicketType
    THEN Fail("BadRequest", "Invalid ticket type")
  ELSE IF dto.Priority \notin TicketPriority
    THEN Fail("BadRequest", "Invalid priority")
  ELSE Plan(NewTicket(userId, dto, now), "Created", NullStr, "Open",
            "Ticket created",
            <<ToAdmins("TicketCreated", "New ticket created")>>)

\* ------------------------------------------------------------- AssignTicket
\* AssignTicket without the check of the developer's role.
AssignTicketPlan_AnyRole(userId, id, developerId, now) ==
  IF ~Authorize(userId, {"Admin"}) THEN Fail("Forbidden", "")
  ELSE IF ~TicketExists(id) THEN Fail("NotFound", "Ticket not found")
  ELSE IF tickets[id].Status = "Closed"
    THEN Fail("BadRequest", "Cannot assign a closed ticket")
  ELSE IF developerId \notin UserIds
          \/ ~active[developerId]
    THEN Fail("BadRequest", "Invalid or inactive developer")
  ELSE
    LET ticket == tickets[id]
        oldDeveloper == ticket.AssignedDeveloperId
        e1 == [ticket EXCEPT !.AssignedDeveloperId = developerId,
                             !.AssignedAt = now, !.UpdatedAt = now]
        e2 == IF ticket.Status = "Open"
                THEN [e1 EXCEPT !.Status = "InProgress", !.InProgressAt = now]
                ELSE e1
    IN Plan(e2,
            IF oldDeveloper = Null THEN "Assigned" ELSE "Reassigned",
            IF oldDeveloper = Null THEN NullStr ELSE ToString(oldDeveloper),
            ToString(developerId),
            "Assigned to " \o Users[developerId].Name,
            <<ToUser(developerId, "TicketAssigned", "Ticket assigned to you")>>)

AssignTicketPlan(userId, id, developerId, now) ==
  IF ~Authorize(userId, {"Admin"}) THEN Fail("Forbidden", "")
  ELSE IF ~TicketExists(id) THEN Fail("NotFound", "Ticket not found")
  ELSE IF tickets[id].Status = "Closed"
    THEN Fail("BadRequest", "Cannot assign a closed ticket")
  ELSE IF developerId \notin UserIds
          \/ Users[developerId].Role # "Developer"
          \/ ~active[developerId]
    THEN Fail("BadRequest", "Invalid or inactive developer")
  ELSE
    LET ticket == tickets[id]
        oldDeveloper == ticket.AssignedDeveloperId
        e1 == [ticket EXCEPT !.AssignedDeveloperId = developerId,
                             !.AssignedAt = now, !.UpdatedAt = now]
        e2 == IF ticket.Status = "Open"
                THEN [e1 EXCEPT !.Status = "InProgress", !.InProgressAt = now]
                ELSE e1
    IN Plan(e2,
            IF oldDeveloper = Null THEN "Assigned" ELSE "Reassigned",
            IF oldDeveloper = Null THEN NullStr ELSE ToString(oldDeveloper),
            ToString(developerId),
            "Assigned to " \o Users[developerId].Name,
            <<ToUser(developerId, "TicketAssigned", "Ticket assigned to you")>>)

\* ------------------------------------------------------- UpdateTicketStatus
\* UpdateTicketStatus without the ClosedAt of the switch.
UpdateTicketStatusPlan_NoClosedAt(userId, id, dto, now) ==
  IF ~Authorize(userId, {"Developer", "Admin"}) THEN Fail("Forbidden", "")
  ELSE IF ~TicketExists(id) THEN Fail("NotFound", "Ticket not found")
  ELSE IF GetCurrentUserRole(userId) = "Developer"
          /\ tickets[id].AssignedDeveloperId # userId
    THEN Fail("Forbidden", "")
  ELSE IF dto.Status \notin TicketStatus
    THEN Fail("BadRequest", "Invalid status")
  ELSE
    LET ticket == tickets[id]
        newStatus == dto.Status
        validationResult ==
          ValidateStatusTransition(ticket.Status, newStatus,
                                   GetCurrentUserRole(userId))
        oldStatus == ticket.Status
        e1 == [ticket EXCEPT !.Status = newStatus, !.UpdatedAt = now]
        e2 == CASE newStatus = "InProgress" ->
                     [e1 EXCEPT !.InProgressAt =
                        IF ticket.InProgressAt = Null THEN now
                        ELSE ticket.InProgressAt]
                [] newStatus = "Resolved" -> [e1 EXCEPT !.ResolvedAt = now]
                [] OTHER -> e1
    IN IF ~validationResult.IsValid
         THEN Fail("BadRequest", validationResult.Message)
       ELSE Plan(e2, "StatusChanged", oldStatus, newStatus, dto.Comments,
                 IF newStatus = "Resolved"
                   THEN <<ToUser(ticket.CreatedByUserId, "TicketResolved",
                                 "Your ticket has been resolved")>>
                   ELSE <<>>)

UpdateTicketStatusPlan(userId, id, dto, now) ==
  IF ~Authorize(userId, {"Developer", "Admin"}) THEN Fail("Forbidden", "")
  ELSE IF ~TicketExists(id) THEN Fail("NotFound", "Ticket not found")
  ELSE IF GetCurrentUserRole(userId) = "Developer"
          /\ tickets[id].AssignedDeveloperId # userId
    THEN Fail("Forbidden", "")
  ELSE IF dto.Status \notin TicketStatus
    THEN Fail("BadRequest", "Invalid status")
  ELSE
    LET ticket == tickets[id]
        newStatus == dto.Status
        validationResult ==
          ValidateStatusTransition(ticket.Status, newStatus,
                                   GetCurrentUserRole(userId))
        oldStatus == ticket.Status
        e1 == [ticket EXCEPT !.Status = newStatus, !.UpdatedAt = now]
        e2 == CASE newStatus = "InProgress" ->
                     [e1 EXCEPT !.InProgressAt =
                        IF ticket.InProgressAt = Null THEN now
                        ELSE ticket.InProgressAt]
                [] newStatus = "Resolved" -> [e1 EXCEPT !.ResolvedAt = now]
                [] newStatus = "Closed" -> [e1 EXCEPT !.ClosedAt = now]
                [] OTHER -> e1
    IN IF ~validationResult.IsValid
         THEN Fail("BadRequest", validationResult.Message)
       ELSE Plan(e2, "StatusChanged", oldStatus, newStatus, dto.Comments,
                 IF newStatus = "Resolved"
                   THEN <<ToUser(ticket.CreatedByUserId, "TicketResolved",
                                 "Your ticket has been resolved")>>
                   ELSE <<>>)

\* ----------------------------------------------------------- ReassignTicket
ReassignTicketPlan(userId, id, developerId, now) ==
  IF ~Authorize(userId, {"Admin"}) THEN Fail("Forbidden", "")
  ELSE IF ~TicketExists(id) THEN Fail("NotFound", "Ticket not found")
  ELSE IF tickets[id].Status = "Closed"
    THEN Fail("BadRequest", "Cannot reassign a closed ticket")
  ELSE IF developerId \notin UserIds
          \/ Users[developerId].Role # "Developer"
          \/ ~active[developerId]
    THEN Fail("BadRequest", "Invalid or inactive developer")
  ELSE
    LET ticket == tickets[id]
        oldDeveloperName ==
          IF ticket.AssignedDeveloperId = Null THEN "Unassigned"
          ELSE Users[ticket.AssignedDeveloperId].Name
    IN Plan([ticket EXCEPT !.AssignedDeveloperId = developerId,
                           !.UpdatedAt = now],
            "Reassigned", oldDeveloperName, Users[developerId].Name,
            "Ticket reassigned", <<>>)

\* -------------------------------------------------------------- CloseTicket
\* CloseTicket without the range check on the satisfaction score.
CloseTicketPlan_AnyScore(userId, id, dto, now) ==
  IF ~Authorize(userId, {"Admin", "EndUser"}) THEN Fail("Forbidden", "")
  ELSE IF ~TicketExists(id) THEN Fail("NotFound", "Ticket not found")
  ELSE IF GetCurrentUserRole(userId) = "EndUser"
          /\ tickets[id].CreatedByUserId # userId
    THEN Fail("Forbidden", "")
  ELSE IF tickets[id].Status = "Closed"
    THEN Fail("BadRequest", "Ticket is already closed")
  ELSE
    LET ticket == tickets[id]
        oldStatus == ticket.Status
        e1 == [ticket EXCEPT !.Status = "Closed", !.ClosedAt = now,
                             !.UpdatedAt = now]
        e2 == [e1 EXCEPT !.SatisfactionScore = dto.SatisfactionScore,
                         !.SatisfactionComment = dto.SatisfactionComment,
                         !.RatedAt = now]
        defaultComment ==
          IF GetCurrentUserRole(userId) = "Admin"
            THEN "Ticket closed by admin"
            ELSE "Ticket accepted and closed by user"
    IN IF FALSE
         THEN Fail("BadRequest", "Satisfaction score must be between 1 and 5")
       ELSE Plan(IF dto.SatisfactionScore # Null THEN e2 ELSE e1,
                 "Closed", oldStatus, "Closed",
                 IF dto.Comments = NullStr THEN defaultComment
                 ELSE dto.Comments,
                 <<ToUser(ticket.CreatedByUserId, "TicketClosed",
                          "Your ticket has been closed")>>)

\* CloseTicket without the check that the ticket is not Closed yet.
CloseTicketPlan_FromClosed(userId, id, dto, now) ==
  IF ~Authorize(userId, {"Admin", "EndUser"}) THEN Fail("Forbidden", "")
  ELSE IF ~TicketExists(id) THEN Fail("NotFound", "Ticket not found")
  ELSE IF GetCurrentUserRole(userId) = "EndUser"
          /\ tickets[id].CreatedByUserId # userId
    THEN Fail("Forbidden", "")
  ELSE
    LET ticket == tickets[id]
        oldStatus == ticket.Status
        e1 == [ticket EXCEPT !.Status = "Closed", !.ClosedAt = now,
                             !.UpdatedAt = now]
        e2 == [e1 EXCEPT !.SatisfactionScore = dto.SatisfactionScore,
                         !.SatisfactionComment = dto.SatisfactionComment,
                         !.RatedAt = now]
        defaultComment ==
          IF GetCurrentUserRole(userId) = "Admin"
            THEN "Ticket closed by admin"
            ELSE "Ticket accepted and closed by user"
    IN IF dto.SatisfactionScore # Null
          /\ (dto.SatisfactionScore < 1 \/ dto.SatisfactionScore > 5)
         THEN Fail("BadRequest", "Satisfaction score must be between 1 and 5")
       ELSE Plan(IF dto.SatisfactionScore # Null THEN e2 ELSE e1,
                 "Closed", oldStatus, "Closed",
                 IF dto.Comments = NullStr THEN defaultComment
                 ELSE dto.Comments,
                 <<ToUser(ticket.CreatedByUserId, "TicketClosed",
                          "Your ticket has been closed")>>)

\* CloseTicket. The score is checked after the tracked entity was
\* changed; the refusal returns before SaveChangesAsync and the request's
\* DbContext is dropped with the request, so nothing of it is stored.
CloseTicketPlan(userId, id, dto, now) ==
  IF ~Authorize(userId, {"Admin", "EndUser"}) THEN Fail("Forbidden", "")
  ELSE IF ~TicketExists(id) THEN Fail("NotFound", "Ticket not found")
  ELSE IF GetCurrentUserRole(userId) = "EndUser"
          /\ tickets[id].CreatedByUserId # userId
    THEN Fail("Forbidden", "")
  ELSE IF tickets[id].Status = "Closed"
    THEN Fail("BadRequest", "Ticket is already closed")
  ELSE
    LET ticket == tickets[id]
        oldStatus == ticket.Status
        e1 == [ticket EXCEPT !.Status = "Closed", !.ClosedAt = now,
                             !.UpdatedAt = now]
        e2 == [e1 EXCEPT !.SatisfactionScore = dto.SatisfactionScore,
                         !.SatisfactionComment = dto.SatisfactionComment,
                         !.RatedAt = now]
        defaultComment ==
          IF GetCurrentUserRole(userId) = "Admin"
            THEN "Ticket closed by admin"
            ELSE "Ticket accepted and closed by user"
    IN IF dto.SatisfactionScore # Null
          /\ (dto.SatisfactionScore < 1 \/ dto.SatisfactionScore > 5)
         THEN Fail("BadRequest", "Satisfaction score must be between 1 and 5")
       ELSE Plan(IF dto.SatisfactionScore # Null THEN e2 ELSE e1,
                 "Closed", oldStatus, "Closed",
                 IF dto.Comments = NullStr THEN defaultComment
                 ELSE dto.Comments,
                 <<ToUser(ticket.CreatedByUserId, "TicketClosed",
                          "Your ticket has been closed")>>)

\* ------------------------------------------------------------- ReopenTicket
\* ReopenTicket without the increment of ReopenCount.
ReopenTicketPlan_NoCount(userId, id, comment, now) ==
  IF ~Authorize(userId, {"EndUser", "Admin"}) THEN Fail("Forbidden", "")
  ELSE IF IsNullOrWhiteSpace(comment)
    THEN Fail("BadRequest", "Comment is required when reopening a ticket")
  ELSE IF ~TicketExists(id) THEN Fail("NotFound", "Ticket not found")
  ELSE IF GetCurrentUserRole(userId) = "EndUser"
          /\ tickets[id].CreatedByUserId # userId
    THEN Fail("Forbidden", "")
  ELSE IF tickets[id].AssignedDeveloperId = userId
          /\ GetCurrentUserRole(userId) # "Admin"
    THEN Fail("BadRequest", "Developer cannot reopen their own assigned ticket")
  ELSE IF tickets[id].Status # "Resolved"
    THEN Fail("BadRequest", "Only resolved tickets can be reopened")
  ELSE
    LET ticket == tickets[id]
        oldStatus == ticket.Status
    IN Plan([ticket EXCEPT !.Status = "Reopened", !.ReopenedAt = now,
                           !.UpdatedAt = now],
            "Reopened", oldStatus, "Reopened", comment,
            IF ticket.AssignedDeveloperId # Null
              THEN <<ToUser(ticket.AssignedDeveloperId, "TicketReopened",
                            "Ticket reopened"),
                     ToAdmins("TicketReopened", "Ticket reopened by user")>>
              ELSE <<ToAdmins("TicketReopened", "Ticket reopened by user")>>)

\* ReopenTicket logging TicketAction.StatusChanged.
ReopenTicketPlan_StatusChanged(userId, id, comment, now) ==
  IF ~Authorize(userId, {"EndUser", "Admin"}) THEN Fail("Forbidden", "")
  ELSE IF IsNullOrWhiteSpace(comment)
    THEN Fail("BadRequest", "Comment is required when reopening a ticket")
  ELSE IF ~TicketExists(id) THEN Fail("NotFound", "Ticket not found")
  ELSE IF GetCurrentUserRole(userId) = "EndUser"
          /\ tickets[id].CreatedByUserId # userId
    THEN Fail("Forbidden", "")
  ELSE IF tickets[id].AssignedDeveloperId = userId
          /\ GetCurrentUserRole(userId) # "Admin"
    THEN Fail("BadRequest", "Developer cannot reopen their own assigned ticket")
  ELSE IF tickets[id].Status # "Resolved"
    THEN Fail("BadRequest", "Only resolved tickets can be reopened")
  ELSE
    LET ticket == tickets[id]
        oldStatus == ticket.Status
    IN Plan([ticket EXCEPT !.Status = "Reopened", !.ReopenedAt = now,
                           !.ReopenCount = @ + 1, !.UpdatedAt = now],
            "StatusChanged", oldStatus, "Reopened", comment,
            IF ticket.AssignedDeveloperId # Null
              THEN <<ToUser(ticket.AssignedDeveloperId, "TicketReopened",
                            "Ticket reopened"),
                     ToAdmins("TicketReopened", "Ticket reopened by user")>>
              ELSE <<ToAdmins("TicketReopened", "Ticket reopened by user")>>)

ReopenTicketPlan(userId, id, comment, now) ==
  IF ~Authorize(userId, {"EndUser", "Admin"}) THEN Fail("Forbidden", "")
  ELSE IF IsNullOrWhiteSpace(comment)
    THEN Fail("BadRequest", "Comment is required when reopening a ticket")
  ELSE IF ~TicketExists(id) THEN Fail("NotFound", "Ticket not found")
  ELSE IF GetCurrentUserRole(userId) = "EndUser"
          /\ tickets[id].CreatedByUserId # userId
    THEN Fail("Forbidden", "")
  ELSE IF tickets[id].AssignedDeveloperId = userId
          /\ GetCurrentUserRole(userId) # "Admin"
    THEN Fail("BadRequest", "Developer cannot reopen their own assigned ticket")
  ELSE IF tickets[id].Status # "Resolved"
    THEN Fail("BadRequest", "Only resolved tickets can be reopened")
  ELSE
    LET ticket == tickets[id]
        oldStatus == ticket.Status
    IN Plan([ticket EXCEPT !.Status = "Reopened", !.ReopenedAt = now,
                           !.ReopenCount = @ + 1, !.UpdatedAt = now],
            "Reopened", oldStatus, "Reopened", comment,
            IF ticket.AssignedDeveloperId # Null
              THEN <<ToUser(ticket.AssignedDeveloperId, "TicketReopened",
                            "Ticket reopened"),
                     ToAdmins("TicketReopened", "Ticket reopened by user")>>
              ELSE <<ToAdmins("TicketReopened", "Ticket reopened by user")>>)

\* ------------------------------------------- ArchiveTicket, UnarchiveTicket
\* ArchiveTicket without the check that the ticket is Closed.
ArchiveTicketPlan_AnyStatus(userId, id, now) ==
  IF ~Authorize(userId, {"Admin"}) THEN Fail("Forbidden", "")
  ELSE IF ~TicketExists(id) THEN Fail("NotFound", "Ticket not found")
  ELSE IF tickets[id].IsArchived
    THEN Fail("BadRequest", "Ticket is already archived")
  ELSE Plan([tickets[id] EXCEPT !.IsArchived = TRUE, !.ArchivedAt = now,
                                !.ArchivedByUserId = userId,
                                !.UpdatedAt = now],
            "Archived", "Active", "Archived", "Ticket archived by admin",
            <<>>)

\* ArchiveTicket without the check that the ticket is not archived yet.
ArchiveTicketPlan_Again(userId, id, now) ==
  IF ~Authorize(userId, {"Admin"}) THEN Fail("Forbidden", "")
  ELSE IF ~TicketExists(id) THEN Fail("NotFound", "Ticket not found")
  ELSE IF tickets[id].Status # "Closed"
    THEN Fail("BadRequest", "Only closed tickets can be archived")
  ELSE Plan([tickets[id] EXCEPT !.IsArchived = TRUE, !.ArchivedAt = now,
                                !.ArchivedByUserId = userId,
                                !.UpdatedAt = now],
            "Archived", "Active", "Archived", "Ticket archived by admin",
            <<>>)

ArchiveTicketPlan(userId, id, now) ==
  IF ~Authorize(userId, {"Admin"}) THEN Fail("Forbidden", "")
  ELSE IF ~TicketExists(id) THEN Fail("NotFound", "Ticket not found")
  ELSE IF tickets[id].Status # "Closed"
    THEN Fail("BadRequest", "Only closed tickets can be archived")
  ELSE IF tickets[id].IsArchived
    THEN Fail("BadRequest", "Ticket is already archived")
  ELSE Plan([tickets[id] EXCEPT !.IsArchived = TRUE, !.ArchivedAt = now,
                                !.ArchivedByUserId = userId,
                                !.UpdatedAt = now],
            "Archived", "Active", "Archived", "Ticket archived by admin",
            <<>>)

UnarchiveTicketPlan(userId, id, now) ==
  IF ~Authorize(userId, {"Admin"}) THEN Fail("Forbidden", "")
  ELSE IF ~TicketExists(id) THEN Fail("NotFound", "Ticket not found")
  ELSE IF ~tickets[id].IsArchived
    THEN Fail("BadRequest", "Ticket is not archived")
  ELSE Plan([tickets[id] EXCEPT !.IsArchived = FALSE, !.ArchivedAt = Null,
                                !.ArchivedByUserId = Null,
                                !.UpdatedAt = now],
            "Unarchived", "Archived", "Active",
            "Ticket unarchived by admin", <<>>)

\* -------------------------------------------------------------- SendMessage
\* GetTicketWithAccessCheck: the error the lookup returns, "Ok" if none.
\* GetTicketWithAccessCheck answering NotFound for a ticket the caller may
\* not see.
GetTicketWithAccessCheck_Hidden(userId, ticketId) ==
  IF ~TicketExists(ticketId) THEN "NotFound"
  ELSE IF GetCurrentUserRole(userId) = "Developer"
          /\ tickets[ticketId].AssignedDeveloperId # userId
    THEN "NotFound"
  ELSE IF GetCurrentUserRole(userId) = "EndUser"
          /\ tickets[ticketId].CreatedByUserId # userId
    THEN "NotFound"
  ELSE "Ok"

GetTicketWithAccessCheck(userId, ticketId) ==
  IF ~TicketExists(ticketId) THEN "NotFound"
  ELSE IF GetCurrentUserRole(userId) = "Developer"
          /\ tickets[ticketId].AssignedDeveloperId # userId
    THEN "Forbidden"
  ELSE IF GetCurrentUserRole(userId) = "EndUser"
          /\ tickets[ticketId].CreatedByUserId # userId
    THEN "Forbidden"
  ELSE "Ok"

\* string.Trim over the message texts the requests carry.
Trim(s) == IF s \in {"", " ", "  "} THEN "" ELSE s

\* files: "none", "ok" (one allowed file) or "exe" (one refused file).
SendMessageDtos ==
  {[Message |-> "hello", files |-> "none"], [Message |-> " ", files |-> "ok"],
   [Message |-> NullStr, files |-> "none"], [Message |-> "hello", files |-> "exe"]}
\* The messages whose sending is a step: those with an attachment, which
\* write a message row and a history row.
SentMessageDtos == {dto \in SendMessageDtos : dto.files # "none"}

\* The outcome of SendMessage's checks.
SendMessageCheck(userId, id, dto) ==
  IF GetTicketWithAccessCheck(userId, id) # "Ok"
    THEN Fail(GetTicketWithAccessCheck(userId, id), "")
  ELSE IF tickets[id].Status = "Closed"
    THEN Fail("BadRequest", "Cannot send messages to closed tickets")
  ELSE IF tickets[id].IsArchived
    THEN Fail("BadRequest", "Cannot send messages to archived tickets")
  ELSE IF dto.files # "none" /\ tickets[id].Status = "Resolved"
    THEN Fail("BadRequest", "Cannot attach files to resolved tickets")
  ELSE IF IsNullOrWhiteSpace(dto.Message) /\ dto.files = "none"
    THEN Fail("BadRequest", "Message or attachment is required")
  ELSE IF dto.files = "exe"
    THEN Fail("BadRequest", "File type is not allowed")
  ELSE Fail("Ok", "")

\* ------------------------------------------- a handler run start to end
\* What a request returns and the tables as it leaves them.
Result(code, msg, t, h, n, m, c) ==
  [code |-> code, msg |-> msg, tickets |-> t, history |-> h,
   notifications |-> n, messages |-> m, clock |-> c]

Rejected(code, msg) ==
  Result(code, msg, tickets, history, notifications, messages, clock)

\* The notifications of a plan, in order: CreateNotification for a user,
\* GetAdminUserIds and CreateNotificationsForUsers for the admins.
RECURSIVE CreateNotes(_, _, _, _)
CreateNotes(rows, notes, ticketId, c) ==
  IF notes = <<>> THEN [rows |-> rows, clock |-> c]
  ELSE LET note == Head(notes)
           one == IF note.admins
                    THEN CreateNotificationsForUsers(
                           rows, GetAdminUserIds, note.type, note.message,
                           ticketId, c)
                    ELSE [rows |-> CreateNotification(
                                     rows, note.userId, note.type,
                                     note.message, ticketId, c + 1),
                          clock |-> c + 1]
       IN CreateNotes(one.rows, Tail(notes), ticketId, one.clock)

\* Run without AddHistory after a reassignment.
Run_NoReassignHistory(plan, userId, isNew) ==
  IF plan.code # "Ok" THEN Rejected(plan.code, plan.msg)
  ELSE
    LET id == plan.entity.Id
        t1 == IF isNew THEN Append(tickets, plan.entity)
              ELSE [tickets EXCEPT
                      ![id] = SaveTicket(tickets[id], tickets[id], plan.entity)]
        h1 == IF plan.action = "Reassigned" THEN history
              ELSE AddHistory(history, id, plan.action, plan.oldValue,
                              plan.newValue, plan.comments, userId, clock + 2)
        n1 == CreateNotes(notifications, plan.notes, id, clock + 2)
    IN Result("Ok", "", t1, h1, n1.rows, messages, n1.clock)

\* SaveChangesAsync of the ticket, AddHistory, then the notifications.
\* The plan was made with now = clock + 1.
Run(plan, userId, isNew) ==
  IF plan.code # "Ok" THEN Rejected(plan.code, plan.msg)
  ELSE
    LET id == plan.entity.Id
        t1 == IF isNew THEN Append(tickets, plan.entity)
              ELSE [tickets EXCEPT
                      ![id] = SaveTicket(tickets[id], tickets[id], plan.entity)]
        h1 == AddHistory(history, id, plan.action, plan.oldValue,
                         plan.newValue, plan.comments, userId, clock + 2)
        n1 == CreateNotes(notifications, plan.notes, id, clock + 2)
    IN Result("Ok", "", t1, h1, n1.rows, messages, n1.clock)

CreateTicket(userId, dto) ==
  Run(CreateTicketPlan(userId, dto, clock + 1), userId, TRUE)
AssignTicket(userId, id, developerId) ==
  Run(AssignTicketPlan(userId, id, developerId, clock + 1), userId, FALSE)
UpdateTicketStatus(userId, id, dto) ==
  Run(UpdateTicketStatusPlan(userId, id, dto, clock + 1), userId, FALSE)
ReassignTicket(userId, id, developerId) ==
  Run(ReassignTicketPlan(userId, id, developerId, clock + 1), userId, FALSE)
CloseTicket(userId, id, dto) ==
  Run(CloseTicketPlan(userId, id, dto, clock + 1), userId, FALSE)
ReopenTicket(userId, id, comment) ==
  Run(ReopenTicketPlan(userId, id, comment, clock + 1), userId, FALSE)
ArchiveTicket(userId, id) ==
  Run(ArchiveTicketPlan(userId, id, clock + 1), userId, FALSE)
UnarchiveTicket(userId, id) ==
  Run(UnarchiveTicketPlan(userId, id, clock + 1), userId, FALSE)

SendMessage(userId, id, dto) ==
  LET check == SendMessageCheck(userId, id, dto)
      m1 == Append(messages,
                   [Id |-> Len(messages) + 1, TicketId |-> id,
                    SenderId |-> userId, Message |-> Trim(dto.Message),
                    Attachments |-> IF dto.files = "none" THEN 0 ELSE 1,
                    SentAt |-> clock + 1])
  IN IF check.code # "Ok" THEN Rejected(check.code, check.msg)
     ELSE IF dto.files = "none"
       THEN Result("Ok", "", tickets, history, notifications, m1, clock + 1)
     ELSE Result("Ok", "", tickets,
                 AddHistory(history, id, "AttachmentAdded", NullStr,
                            "file", "1 file(s) attached", userId, clock + 2),
                 notifications, m1, clock + 2)

\* ------------------------------------------------------------------ reads
\* GetTickets with the developer filter on the creator column.
GetTickets_DeveloperAll(userId, includeArchived) ==
  {i \in 1..Len(tickets) :
     /\ includeArchived \/ ~tickets[i].IsArchived
     /\ \/ GetCurrentUserRole(userId) \in {"Admin", "Developer"}
        \/ tickets[i].CreatedByUserId = userId}

\* GetTickets: the ids returned (the order is by CreatedAt, descending).
GetTickets(userId, includeArchived) ==
  {i \in 1..Len(tickets) :
     /\ includeArchived \/ ~tickets[i].IsArchived
     /\ CASE GetCurrentUserRole(userId) = "Admin" -> TRUE
          [] GetCurrentUserRole(userId) = "Developer" ->
               tickets[i].AssignedDeveloperId = userId
          [] OTHER -> tickets[i].CreatedByUserId = userId}

\* GetTicket: the result code.
GetTicket(userId, id) ==
  IF ~TicketExists(id) THEN "NotFound"
  ELSE IF GetCurrentUserRole(userId) = "Developer"
          /\ tickets[id].AssignedDeveloperId # userId
    THEN "Forbidden"
  ELSE IF GetCurrentUserRole(userId) = "EndUser"
          /\ tickets[id].CreatedByUserId # userId
    THEN "Forbidden"
  ELSE "Ok"

\* GetTicketHistory: the actions a role is shown.
TicketAction ==
  {"Created", "Assigned", "StatusChanged", "Reassigned", "PriorityChanged",
   "Resolved", "Closed", "Reopened", "Archived", "Unarchived",
   "AttachmentAdded", "SatisfactionRated"}

\* The allow-lists with the requester shown what the developer is shown.
AllowedActions_EndUserAsDeveloper(userRole) ==
  CASE userRole = "Admin" -> TicketAction
    [] userRole \in {"Developer", "EndUser"} ->
         {"Created", "Assigned", "Reassigned", "StatusChanged", "Resolved",
          "Closed", "Reopened", "AttachmentAdded"}
    [] OTHER -> {}

AllowedActions(userRole) ==
  CASE userRole = "Admin" -> TicketAction
    [] userRole = "Developer" ->
         {"Created", "Assigned", "Reassigned", "StatusChanged", "Resolved",
          "Closed", "Reopened", "AttachmentAdded"}
    [] userRole = "EndUser" ->
         {"Created", "Assigned", "StatusChanged", "Resolved", "Closed",
          "Reopened", "SatisfactionRated"}
    [] OTHER -> {}

\* OrderBy(h => h.ChangedAt): a stable sort of the rows, oldest first.
RECURSIVE InsertByChangedAt(_, _)
InsertByChangedAt(sorted, row) ==
  IF sorted = <<>> THEN <<row>>
  ELSE IF Head(sorted).ChangedAt <= row.ChangedAt
    THEN <<Head(sorted)>> \o InsertByChangedAt(Tail(sorted), row)
  ELSE <<row>> \o sorted

RECURSIVE OrderByChangedAt(_)
OrderByChangedAt(rows) ==
  IF rows = <<>> THEN <<>>
  ELSE InsertByChangedAt(OrderByChangedAt(SubSeq(rows, 1, Len(rows) - 1)),
                         rows[Len(rows)])

GetTicketHistory(userId, id) ==
  IF GetTicket(userId, id) # "Ok"
    THEN [code |-> GetTicket(userId, id), rows |-> <<>>]
  ELSE [code |-> "Ok",
        rows |-> OrderByChangedAt(
                   SelectSeq(history,
                             LAMBDA h : /\ h.TicketId = id
                                        /\ h.Action \in AllowedActions(
                                             GetCurrentUserRole(userId))))]

\* GetMessages: the rows of the ticket, behind GetTicketWithAccessCheck.
GetMessages(userId, id) ==
  IF GetTicketWithAccessCheck(userId, id) # "Ok"
    THEN [code |-> GetTicketWithAccessCheck(userId, id), rows |-> <<>>]
  ELSE [code |-> "Ok",
        rows |-> SelectSeq(messages, LAMBDA m : m.TicketId = id)]

\* --------------------------------------------------- NotificationsController
\* Take(50) of GetNotifications.
PageSize == 50

\* OrderByDescending(n => n.CreatedAt). (Rows of one user never share a
\* CreatedAt here: every DateTime.UtcNow read is later than the one before.)
RECURSIVE InsertByCreatedAtDescending(_, _)
InsertByCreatedAtDescending(sorted, row) ==
  IF sorted = <<>> THEN <<row>>
  ELSE IF Head(sorted).CreatedAt >= row.CreatedAt
    THEN <<Head(sorted)>> \o InsertByCreatedAtDescending(Tail(sorted), row)
  ELSE <<row>> \o sorted

RECURSIVE OrderByDescendingCreatedAt(_)
OrderByDescendingCreatedAt(rows) ==
  IF rows = <<>> THEN <<>>
  ELSE InsertByCreatedAtDescending(
         OrderByDescendingCreatedAt(SubSeq(rows, 1, Len(rows) - 1)),
         rows[Len(rows)])

Take(rows, n) == SubSeq(rows, 1, IF Len(rows) < n THEN Len(rows) ELSE n)

\* GetNotifications without the filter on IsRead.
GetNotifications_WithRead(userId) ==
  Take(OrderByDescendingCreatedAt(
         SelectSeq(notifications, LAMBDA n : n.UserId = userId)),
       PageSize)

\* GetNotifications: the caller's unread rows, newest first, the first 50.
GetNotifications(userId) ==
  Take(OrderByDescendingCreatedAt(
         SelectSeq(notifications,
                   LAMBDA n : n.UserId = userId /\ ~n.IsRead)),
       PageSize)

\* GetUnreadCount: CountAsync of the caller's unread rows.
GetUnreadCount(userId) ==
  Len(SelectSeq(notifications, LAMBDA n : n.UserId = userId /\ ~n.IsRead))

MarkResult(code, msg, rows) ==
  [code |-> code, msg |-> msg, notifications |-> rows]

\* MarkAsRead finding the row by its id alone.
MarkAsRead_AnyUser(userId, id) ==
  IF ~\E k \in 1..Len(notifications) : notifications[k].Id = id
    THEN MarkResult("NotFound", "Notification not found", notifications)
  ELSE MarkResult("Ok", "Notification marked as read",
                  [k \in 1..Len(notifications) |->
                     IF notifications[k].Id = id
                       THEN [notifications[k] EXCEPT !.IsRead = TRUE]
                       ELSE notifications[k]])

\* MarkAsRead: the row with this id and this recipient gets IsRead = true.
MarkAsRead(userId, id) ==
  IF ~\E k \in 1..Len(notifications) :
        notifications[k].Id = id /\ notifications[k].UserId = userId
    THEN MarkResult("NotFound", "Notification not found", notifications)
  ELSE MarkResult("Ok", "Notification marked as read",
                  [k \in 1..Len(notifications) |->
                     IF notifications[k].Id = id
                        /\ notifications[k].UserId = userId
                       THEN [notifications[k] EXCEPT !.IsRead = TRUE]
                       ELSE notifications[k]])

\* MarkAllAsRead marking the unread rows of every user.
MarkAllAsRead_Everyone(userId) ==
  MarkResult("Ok",
             "Marked " \o ToString(GetUnreadCount(userId))
               \o " notifications as read",
             [k \in 1..Len(notifications) |->
                [notifications[k] EXCEPT !.IsRead = TRUE]])

\* MarkAllAsRead: every unread row of the caller gets IsRead = true.
MarkAllAsRead(userId) ==
  MarkResult("Ok",
             "Marked " \o ToString(GetUnreadCount(userId))
               \o " notifications as read",
             [k \in 1..Len(notifications) |->
                IF notifications[k].UserId = userId /\ ~notifications[k].IsRead
                  THEN [notifications[k] EXCEPT !.IsRead = TRUE]
                  ELSE notifications[k]])

\* ------------------------------------------------ Spec: one request at a time
TicketIds == {1}

\* The connections that carry requests in SpecConc, and a connection
\* with no request on it.
Connections == {1, 2}

\* useNotifications before its effects have run: useState([]),
\* useState(false), no request sent, no connection. (fetches: the
\* latest getNotifications calls, the one of the mount and one of a
\* reconnection, that one with the number of notification rows there
\* were when it was sent; wire: the ReceiveNotification messages on their
\* way to the browser.)
FetchSlots == {"mount", "reconnect"}
NoFetch == [pc |-> "free", result |-> <<>>, upto |-> 0]
ClientInit ==
  [mounted |-> FALSE, conn |-> "none", isConnected |-> FALSE, list |-> <<>>,
   fetches |-> [k \in FetchSlots |-> NoFetch], wire |-> <<>>]
IdleRequest ==
  [pc |-> "idle", op |-> "none", userId |-> Null, ticketId |-> Null,
   snapshot |-> <<>>, plan |-> <<>>, code |-> "", row |-> 0]

Init ==
  /\ tickets = <<>>
  /\ history = <<>>
  /\ notifications = <<>>
  /\ messages = <<>>
  /\ active = [u \in UserIds |-> TRUE]
  /\ clock = 0
  /\ last = [op |-> "none", userId |-> Null, ticketId |-> Null]
  /\ userUpdates = 0
  /\ reqs = [c \in Connections |-> IdleRequest]
  /\ online = {}
  /\ pushed = {}
  /\ client = ClientInit

CanWrite == Len(history) + userUpdates < MaxWrites

\* An accepted request: the tables become what the handler leaves.
Commit(r, op, userId, ticketId) ==
  /\ CanWrite
  /\ r.code = "Ok"
  /\ tickets' = r.tickets
  /\ history' = r.history
  /\ notifications' = r.notifications
  /\ messages' = r.messages
  /\ clock' = r.clock
  /\ last' = [op |-> op, userId |-> userId, ticketId |-> ticketId]
  /\ UNCHANGED <<active, userUpdates, reqs, online, pushed, client>>

DoCreateTicket ==
  \E userId \in Callers, dto \in CreateTicketDtos :
    /\ Len(tickets) < Cardinality(TicketIds)
    /\ Commit(CreateTicket(userId, dto), "create", userId, Len(tickets) + 1)

DoAssignTicket ==
  \E userId \in Callers, id \in TicketIds, developerId \in DeveloperIdInputs :
    Commit(AssignTicket(userId, id, developerId), "assign", userId, id)

DoUpdateTicketStatus ==
  \E userId \in Callers, id \in TicketIds, dto \in UpdateTicketStatusDtos :
    Commit(UpdateTicketStatus(userId, id, dto), "changeStatus", userId, id)

DoReassignTicket ==
  \E userId \in Callers, id \in TicketIds, developerId \in DeveloperIdInputs :
    Commit(ReassignTicket(userId, id, developerId), "reassign", userId, id)

DoCloseTicket ==
  \E userId \in Callers, id \in TicketIds, dto \in CloseTicketDtos :
    Commit(CloseTicket(userId, id, dto), "close", userId, id)

DoReopenTicket ==
  \E userId \in Callers, id \in TicketIds, comment \in ReopenComments :
    Commit(ReopenTicket(userId, id, comment), "reopen", userId, id)

DoArchiveTicket ==
  \E userId \in Callers, id \in TicketIds :
    Commit(ArchiveTicket(userId, id), "archive", userId, id)

DoUnarchiveTicket ==
  \E userId \in Callers, id \in TicketIds :
    Commit(UnarchiveTicket(userId, id), "unarchive", userId, id)

DoSendMessage ==
  \E userId \in Callers, id \in TicketIds, dto \in SentMessageDtos :
    Commit(SendMessage(userId, id, dto), "sendMessage", userId, id)

\* UsersController.UpdateUserStatus, by an admin.
UpdateUserStatus ==
  \E userId \in Callers, id \in StatusTargets, isActive \in BOOLEAN :
    /\ CanWrite
    /\ Authorize(userId, {"Admin"})
    /\ active' = [active EXCEPT ![id] = isActive]
    /\ userUpdates' = userUpdates + 1
    /\ UNCHANGED <<tickets, history, notifications, messages, clock, last,
                   reqs, online, pushed, client>>

Next ==
  \/ DoCreateTicket
  \/ DoAssignTicket
  \/ DoUpdateTicketStatus
  \/ DoReassignTicket
  \/ DoCloseTicket
  \/ DoReopenTicket
  \/ DoArchiveTicket
  \/ DoUnarchiveTicket
  \/ DoSendMessage
  \/ UpdateUserStatus

Spec == Init /\ [][Next]_vars

\* ------------------------------------ SpecScenario: the life of one ticket
\* A requester creates a ticket, an Admin assigns a developer, the
\* developer resolves it, the requester reopens it, the developer takes it
\* up and resolves it again, the requester closes it with a score. The
\* step to take is given by the number of history rows.
ScenarioScores == 1..5
ScenarioTickets ==
  [ProjectId : {1}, Type : TicketType, Priority : TicketPriority]

ScenarioCommit(r, op, userId) ==
  /\ r.code = "Ok"
  /\ tickets' = r.tickets
  /\ history' = r.history
  /\ notifications' = r.notifications
  /\ messages' = r.messages
  /\ clock' = r.clock
  /\ last' = [op |-> op, userId |-> userId, ticketId |-> 1]
  /\ UNCHANGED <<active, userUpdates, reqs, online, pushed, client>>

ScenarioCreate ==
  \E userId \in {u \in UserIds : Users[u].Role = "EndUser"} :
    \E dto \in ScenarioTickets :
      /\ Len(history) = 0
      /\ ScenarioCommit(CreateTicket(userId, dto), "create", userId)

ScenarioAssign ==
  \E userId \in {u \in UserIds : Users[u].Role = "Admin"} :
    \E d \in {u \in UserIds : Users[u].Role = "Developer"} :
      /\ Len(history) = 1
      /\ ScenarioCommit(AssignTicket(userId, 1, d), "assign", userId)

ScenarioResolve ==
  /\ Len(history) \in {2, 5}
  /\ ScenarioCommit(UpdateTicketStatus(tickets[1].AssignedDeveloperId, 1,
                                       [Status |-> "Resolved",
                                        Comments |-> NullStr]),
                    "changeStatus", tickets[1].AssignedDeveloperId)

ScenarioReopen ==
  /\ Len(history) = 3
  /\ ScenarioCommit(ReopenTicket(tickets[1].CreatedByUserId, 1,
                                 "still broken"),
                    "reopen", tickets[1].CreatedByUserId)

ScenarioResume ==
  /\ Len(history) = 4
  /\ ScenarioCommit(UpdateTicketStatus(tickets[1].AssignedDeveloperId, 1,
                                       [Status |-> "InProgress",
                                        Comments |-> NullStr]),
                    "changeStatus", tickets[1].AssignedDeveloperId)

ScenarioClose ==
  \E score \in ScenarioScores :
    /\ Len(history) = 6
    /\ ScenarioCommit(CloseTicket(tickets[1].CreatedByUserId, 1,
                                  [Comments |-> NullStr,
                                   SatisfactionScore |-> score,
                                   SatisfactionComment |-> "thanks"]),
                      "close", tickets[1].CreatedByUserId)

NextScenario ==
  \/ ScenarioCreate
  \/ ScenarioAssign
  \/ ScenarioResolve
  \/ ScenarioReopen
  \/ ScenarioResume
  \/ ScenarioClose

SpecScenario == Init /\ [][NextScenario]_vars

\* ---------------------------------- SpecConc: requests overlap, process dies
\* A handler runs on its own DbContext: it reads the ticket and checks the
\* request, then calls SaveChangesAsync for the ticket, again inside
\* AddHistory, and again for each notification. Each call is a step of
\* its own; nothing spans them (no transaction, no concurrency token).
\* The requests accepted so far: those that wrote their history row and
\* those on their way to it.
Accepted ==
  Len(history)
    + Cardinality({c \in Connections : reqs[c].pc \in {"save", "log"}})

\* The requests that overlap.
ConcRequests ==
  {[op |-> "create", userId |-> 5,
    arg |-> [ProjectId |-> 1, Type |-> "Bug", Priority |-> "Medium"]],
   [op |-> "changeStatus", userId |-> 1,
    arg |-> [Status |-> "Resolved", Comments |-> NullStr]],
   [op |-> "close", userId |-> 5,
    arg |-> [Comments |-> NullStr, SatisfactionScore |-> Null,
             SatisfactionComment |-> NullStr]],
   [op |-> "reopen", userId |-> 5, arg |-> "still broken"]}

\* What the handler of a request decides from the rows it reads at `now`.
PlanOf(req, id, now) ==
  CASE req.op = "create" -> CreateTicketPlan(req.userId, req.arg, now)
    [] req.op = "assign" -> AssignTicketPlan(req.userId, id, req.arg, now)
    [] req.op = "changeStatus" ->
         UpdateTicketStatusPlan(req.userId, id, req.arg, now)
    [] req.op = "close" -> CloseTicketPlan(req.userId, id, req.arg, now)
    [] req.op = "reopen" -> ReopenTicketPlan(req.userId, id, req.arg, now)

ConcUnchanged ==
  UNCHANGED <<messages, active, last, userUpdates, online, pushed, client>>

\* An accepted request up to its first SaveChangesAsync: FindAsync, the
\* checks, the changes to the tracked entity. (A refused request returns
\* from here and leaves nothing behind.)
BeginRequest(c) ==
  \E req \in ConcRequests, id \in TicketIds :
    LET plan == PlanOf(req, id, clock + 1)
    IN /\ reqs[c].pc = "idle"
       /\ Accepted < MaxWrites
       /\ req.op = "create" =>
            /\ Len(tickets) < Cardinality(TicketIds)
            /\ \A d \in Connections : reqs[d].op # "create"
       /\ plan.code = "Ok"
       /\ clock' = clock + 1
       /\ reqs' = [reqs EXCEPT ![c] =
            [pc |-> "save", op |-> req.op, userId |-> req.userId,
             ticketId |-> plan.entity.Id,
             snapshot |-> IF req.op = "create" THEN <<>> ELSE tickets[id],
             plan |-> plan, code |-> "", row |-> 0]]
       /\ UNCHANGED <<tickets, history, notifications>>
       /\ ConcUnchanged

\* SaveChangesAsync of the ticket: the columns the handler changed are
\* written over the row as it is now.
SaveRequest(c) ==
  LET r == reqs[c]
  IN /\ r.pc = "save"
     /\ tickets' = IF r.op = "create" THEN Append(tickets, r.plan.entity)
                   ELSE [tickets EXCEPT ![r.ticketId] =
                           SaveTicket(@, r.snapshot, r.plan.entity)]
     /\ reqs' = [reqs EXCEPT ![c].pc = "log"]
     /\ UNCHANGED <<history, notifications, clock>>
     /\ ConcUnchanged

\* The request on c has made its last SaveChangesAsync and returns Ok.
Returned(r) ==
  [IdleRequest EXCEPT !.pc = "done", !.op = r.op, !.userId = r.userId,
                      !.ticketId = r.ticketId, !.snapshot = r.snapshot,
                      !.code = "Ok", !.row = r.row]

\* AddHistory and its SaveChangesAsync.
LogRequest(c) ==
  LET r == [reqs[c] EXCEPT !.row = Len(history) + 1, !.pc = "notify"]
  IN /\ reqs[c].pc = "log"
     /\ history' = AddHistory(history, r.ticketId, r.plan.action,
                              r.plan.oldValue, r.plan.newValue,
                              r.plan.comments, r.userId, clock + 1)
     /\ clock' = clock + 1
     /\ reqs' = [reqs EXCEPT ![c] =
                   IF r.plan.notes = <<>> THEN Returned(r) ELSE r]
     /\ UNCHANGED <<tickets, notifications>>
     /\ ConcUnchanged

\* The next CreateNotification / CreateNotificationsForUsers call of the
\* handler, with its SaveChangesAsync.
NotifyRequest(c) ==
  LET n1 == CreateNotes(notifications, <<Head(reqs[c].plan.notes)>>,
                        reqs[c].ticketId, clock)
      r == [reqs[c] EXCEPT !.plan.notes = Tail(@)]
  IN /\ reqs[c].pc = "notify"
     /\ notifications' = n1.rows
     /\ clock' = n1.clock
     /\ reqs' = [reqs EXCEPT ![c] =
                   IF r.plan.notes = <<>> THEN Returned(r) ELSE r]
     /\ UNCHANGED <<tickets, history>>
     /\ ConcUnchanged

\* The response is sent; the connection takes the next request.
Respond(c) ==
  /\ reqs[c].pc = "done"
  /\ reqs' = [reqs EXCEPT ![c] = IdleRequest]
  /\ UNCHANGED <<tickets, history, notifications, clock>>
  /\ ConcUnchanged

\* The process dies while handling requests: what was saved stays, the
\* requests are gone and no connection is served.
Crash ==
  /\ \E c \in Connections : reqs[c].pc \in {"save", "log", "notify"}
  /\ reqs' = [c \in Connections |-> [IdleRequest EXCEPT !.pc = "down"]]
  /\ UNCHANGED <<tickets, history, notifications, clock>>
  /\ ConcUnchanged

NextConc ==
  \/ \E c \in Connections : BeginRequest(c)
  \/ \E c \in Connections : SaveRequest(c)
  \/ \E c \in Connections : LogRequest(c)
  \/ \E c \in Connections : NotifyRequest(c)
  \/ \E c \in Connections : Respond(c)
  \/ Crash

SpecConc == Init /\ [][NextConc]_vars

\* ------------------------------------- SpecInbox: the tickets and the inbox
\* The requests that fill the inboxes, and the two writes of
\* NotificationsController.
InboxRequests ==
  {[op |-> "create", userId |-> 5,
    arg |-> [ProjectId |-> 1, Type |-> "Bug", Priority |-> "Medium"]],
   [op |-> "assign", userId |-> 1, arg |-> 3],
   [op |-> "changeStatus", userId |-> 3,
    arg |-> [Status |-> "Resolved", Comments |-> NullStr]],
   [op |-> "changeStatus", userId |-> 1,
    arg |-> [Status |-> "Resolved", Comments |-> NullStr]],
   [op |-> "reopen", userId |-> 5, arg |-> "still broken"]}

InboxHandle(req, id) ==
  CASE req.op = "create" -> CreateTicket(req.userId, req.arg)
    [] req.op = "assign" -> AssignTicket(req.userId, id, req.arg)
    [] req.op = "changeStatus" -> UpdateTicketStatus(req.userId, id, req.arg)
    [] req.op = "reopen" -> ReopenTicket(req.userId, id, req.arg)

DoInboxRequest ==
  \E req \in InboxRequests, id \in TicketIds :
    /\ req.op = "create" => Len(tickets) < Cardinality(TicketIds)
    /\ Commit(InboxHandle(req, id), req.op, req.userId, id)

NotificationIdInputs == {1, 2, 3, 4, 9}

MarkCommit(r, op, userId, id) ==
  /\ r.code = "Ok"
  /\ notifications' = r.notifications
  /\ last' = [op |-> op, userId |-> userId, ticketId |-> Null,
              notificationId |-> id]
  /\ UNCHANGED <<tickets, history, messages, active, clock, userUpdates,
                 reqs, online, pushed, client>>

DoMarkAsRead ==
  \E userId \in Callers, id \in NotificationIdInputs :
    MarkCommit(MarkAsRead(userId, id), "markRead", userId, id)

DoMarkAllAsRead ==
  \E userId \in Callers :
    MarkCommit(MarkAllAsRead(userId), "markAllRead", userId, Null)

NextInbox ==
  \/ DoInboxRequest
  \/ DoMarkAsRead
  \/ DoMarkAllAsRead

SpecInbox == Init /\ [][NextInbox]_vars

\* ------------------------------------------ SpecList: reads of a long inbox
\* The Notifications table after n notifications: the rows in the order
\* they were written, every `stride`-th a TicketResolved to the end user 5
\* and the others TicketCreated to the admin 1, all unread. The reads are applied to
\* such tables of up to MaxInbox rows, and to what the marks make of them.
MaxInbox == 52
SeedStrides == {2, MaxInbox + 1}

SeedNotifications(n, stride) ==
  [k \in 1..n |->
     IF k % stride = 0
       THEN [Id |-> k, UserId |-> 5, Type |-> "TicketResolved",
             Message |-> "Your ticket has been resolved",
             RelatedTicketId |-> 1,
             IsRead |-> FALSE, CreatedAt |-> k]
       ELSE [Id |-> k, UserId |-> 1, Type |-> "TicketCreated",
             Message |-> "New ticket created", RelatedTicketId |-> 1,
             IsRead |-> FALSE, CreatedAt |-> k]]

InitList ==
  /\ \E n \in 0..MaxInbox, stride \in SeedStrides :
       /\ notifications = SeedNotifications(n, stride)
       /\ clock = n
  /\ tickets = <<>>
  /\ history = <<>>
  /\ messages = <<>>
  /\ active = [u \in UserIds |-> TRUE]
  /\ last = [op |-> "none", userId |-> Null, ticketId |-> Null]
  /\ userUpdates = 0
  /\ reqs = [c \in Connections |-> IdleRequest]
  /\ online = {}
  /\ pushed = {}
  /\ client = ClientInit

NextList ==
  \/ DoMarkAsRead
  \/ DoMarkAllAsRead

SpecList == InitList /\ [][NextList]_vars

\* --------------------------------- SpecPush: the rows and the SignalR pushes
\* One request at a time; its notifications are cut at their awaits:
\* SaveChangesAsync of the rows of one CreateNotification or
\* CreateNotificationsForUsers call, then one SendAsync per row. Either
\* await may throw, nothing in the controller catches it, the request ends
\* with an error and the rest of the handler does not run.
HubUsers == {1, 3}

\* The users the notifications of a plan go to, in order.
RECURSIVE Recipients(_)
Recipients(notes) ==
  IF notes = <<>> THEN <<>>
  ELSE (IF Head(notes).admins THEN GetAdminUserIds
        ELSE <<Head(notes).userId>>) \o Recipients(Tail(notes))

\* The ReceiveNotification messages with the key of an entity that was
\* not saved.
Broadcasts_Unsaved(before, after) ==
  [k \in 1..(Len(after) - Len(before)) |->
     [userId |-> after[Len(before) + k].UserId, id |-> 0]]

\* The ReceiveNotification messages for the rows a call has saved: the
\* group of the row's user, the row's Id.
Broadcasts(before, after) ==
  [k \in 1..(Len(after) - Len(before)) |->
     [userId |-> after[Len(before) + k].UserId,
      id |-> after[Len(before) + k].Id]]

PushUnchanged == UNCHANGED <<messages, active, userUpdates, client>>

\* One group for the connections of every user.
GroupName_Shared(userId) == "user_"

\* The group of a user's connections: $"user_{userId}".
GroupName(userId) == "user_" \o ToString(userId)

\* The users with a connection in a group: OnConnectedAsync has added the
\* connection to the group of the user it is authenticated as, and
\* OnDisconnectedAsync has not removed it.
GroupMembers(group) == {userId \in online : GroupName(userId) = group}

\* NotificationHub.OnConnectedAsync / OnDisconnectedAsync.
OnConnectedAsync ==
  \E userId \in HubUsers :
    /\ userId \notin online
    /\ online' = online \cup {userId}
    /\ UNCHANGED <<tickets, history, notifications, messages, active, clock,
                   last, userUpdates, reqs, pushed, client>>

OnDisconnectedAsync ==
  \E userId \in HubUsers :
    /\ userId \in online
    /\ online' = online \ {userId}
    /\ UNCHANGED <<tickets, history, notifications, messages, active, clock,
                   last, userUpdates, reqs, pushed, client>>

\* The requests whose notifications are pushed: create (to the admins),
\* assign (to the developer), resolve (to the creator), reopen (to the
\* developer, then to the admins).
PushRequests == {req \in InboxRequests : req.userId # 1 \/ req.op = "assign"}

\* An accepted request up to AddHistory: the ticket and the history row
\* are saved.
BeginPushRequest ==
  \E req \in PushRequests, id \in TicketIds :
    LET plan == PlanOf(req, id, clock + 1)
    IN /\ reqs[1].pc = "idle"
       /\ Len(history) < MaxWrites
       /\ req.op = "create" => Len(tickets) < Cardinality(TicketIds)
       /\ plan.code = "Ok"
       /\ tickets' = IF req.op = "create" THEN Append(tickets, plan.entity)
                     ELSE [tickets EXCEPT ![id] =
                             SaveTicket(@, tickets[id], plan.entity)]
       /\ history' = AddHistory(history, plan.entity.Id, plan.action,
                                plan.oldValue, plan.newValue, plan.comments,
                                req.userId, clock + 2)
       /\ clock' = clock + 2
       /\ reqs' = [reqs EXCEPT ![1] =
            [pc |-> "notify", op |-> req.op, userId |-> req.userId,
             ticketId |-> plan.entity.Id, snapshot |-> <<>>, plan |-> plan,
             code |-> "", row |-> Len(history) + 1,
             base |-> Len(notifications),
             recipients |-> Recipients(plan.notes), pushes |-> <<>>,
             attempted |-> {}, failed |-> "none"]]
       /\ UNCHANGED <<notifications, last, online, pushed>>
       /\ PushUnchanged

\* The next CreateNotification / CreateNotificationsForUsers call, up to
\* its SaveChangesAsync.
SaveNotifications ==
  LET r == reqs[1]
      n1 == CreateNotes(notifications, <<Head(r.plan.notes)>>, r.ticketId,
                        clock)
  IN /\ r.pc = "notify"
     /\ r.pushes = <<>>
     /\ r.plan.notes # <<>>
     /\ notifications' = n1.rows
     /\ clock' = n1.clock
     /\ reqs' = [reqs EXCEPT ![1].plan.notes = Tail(@),
                             ![1].pushes = Broadcasts(notifications, n1.rows)]
     /\ UNCHANGED <<tickets, history, last, online, pushed>>
     /\ PushUnchanged

\* The request ends with the exception of an await.
Thrown(r, failed) ==
  [r EXCEPT !.pc = "done", !.code = "Error", !.failed = failed]

\* That SaveChangesAsync throws: no row of the call is stored.
SaveNotificationsThrows ==
  /\ reqs[1].pc = "notify"
  /\ reqs[1].pushes = <<>>
  /\ reqs[1].plan.notes # <<>>
  /\ reqs' = [reqs EXCEPT ![1] = Thrown(@, "write")]
  /\ UNCHANGED <<tickets, history, notifications, clock, last, online, pushed>>
  /\ PushUnchanged

\* SendAsync to the group of the next row's user: the message reaches the
\* connections in that group, if there are any.
SendAsync ==
  LET m == Head(reqs[1].pushes)
  IN /\ reqs[1].pc = "notify"
     /\ reqs[1].pushes # <<>>
     /\ pushed' = pushed \cup {[userId |-> userId, id |-> m.id] :
                               userId \in GroupMembers(GroupName(m.userId))}
     /\ reqs' = [reqs EXCEPT ![1].pushes = Tail(@),
                             ![1].attempted = @ \cup {m.userId}]
     /\ UNCHANGED <<tickets, history, notifications, clock, last, online>>
     /\ PushUnchanged

\* SendAsync throws.
SendAsyncThrows ==
  /\ reqs[1].pc = "notify"
  /\ reqs[1].pushes # <<>>
  /\ reqs' = [reqs EXCEPT ![1] =
                Thrown([@ EXCEPT !.attempted =
                                   @ \cup {Head(reqs[1].pushes).userId}],
                       "push")]
  /\ UNCHANGED <<tickets, history, notifications, clock, last, online, pushed>>
  /\ PushUnchanged

\* Every notification of the handler is done: return Ok.
ReturnOk ==
  /\ reqs[1].pc = "notify"
  /\ reqs[1].pushes = <<>>
  /\ reqs[1].plan.notes = <<>>
  /\ reqs' = [reqs EXCEPT ![1].pc = "done", ![1].code = "Ok"]
  /\ last' = [op |-> reqs[1].op, userId |-> reqs[1].userId,
              ticketId |-> reqs[1].ticketId]
  /\ UNCHANGED <<tickets, history, notifications, clock, online, pushed>>
  /\ PushUnchanged

NextPush ==
  \/ OnConnectedAsync
  \/ OnDisconnectedAsync
  \/ BeginPushRequest
  \/ SaveNotifications
  \/ SaveNotificationsThrows
  \/ SendAsync
  \/ SendAsyncThrows
  \/ ReturnOk
  \/ Respond(1)

SpecPush == Init /\ [][NextPush]_vars

\* ------------------------------ SpecClient: useNotifications and the server
\* The hook in the browser of the end user 5, the requests that make
\* notifications for that user, the hub and NotificationsController. A
\* handler runs in one step; what is cut are the client's awaits: a
\* getNotifications call (sent, read by the server, answered) and the way
\* of a ReceiveNotification message to the browser.
ClientUser == 5

ClientRequests ==
  {[op |-> "create", userId |-> 5,
    arg |-> [ProjectId |-> 1, Type |-> "Bug", Priority |-> "Medium"]],
   [op |-> "changeStatus", userId |-> 1,
    arg |-> [Status |-> "Resolved", Comments |-> NullStr]],
   [op |-> "reopen", userId |-> 5, arg |-> "still broken"]}

ClientUnchanged ==
  UNCHANGED <<tickets, history, notifications, messages, active, clock, last,
              userUpdates, reqs, online, pushed>>

\* The notifications of the user that were created when the user had no
\* connection: no message was sent for them.
Missed ==
  {k \in 1..Len(notifications) :
     /\ notifications[k].UserId = ClientUser
     /\ [userId |-> ClientUser, id |-> k] \notin pushed}

\* fetchNotifications: getNotifications() is called.
\* fetchNotifications that calls nothing.
FetchIssued_Never(c, k) == c

FetchIssued(c, k) ==
  [c EXCEPT !.fetches[k] =
              [pc |-> "sent", result |-> <<>>,
               upto |-> IF k = "reconnect" THEN Len(notifications) ELSE 0]]

\* An accepted request of TicketsController (a ticket is resolved when
\* it is not Resolved already); the rows it adds for the user are sent to
\* the user's group, and reach nobody if nobody is in it.
ClientServerRequest ==
  \E req \in ClientRequests, id \in TicketIds :
    LET r == InboxHandle(req, id)
        new == SelectSeq(SubSeq(r.notifications, Len(notifications) + 1,
                                Len(r.notifications)),
                         LAMBDA n : n.UserId = ClientUser)
        joined == ClientUser \in GroupMembers(GroupName(ClientUser))
    IN /\ CanWrite
       /\ req.op = "create" => Len(tickets) < Cardinality(TicketIds)
       /\ req.op = "changeStatus" =>
            Len(tickets) >= id /\ tickets[id].Status # "Resolved"
       /\ r.code = "Ok"
       /\ tickets' = r.tickets
       /\ history' = r.history
       /\ notifications' = r.notifications
       /\ messages' = r.messages
       /\ clock' = r.clock
       /\ client' = IF joined THEN [client EXCEPT !.wire = @ \o new]
                    ELSE client
       /\ pushed' = IF joined
                      THEN pushed \cup {[userId |-> ClientUser,
                                         id |-> new[i].Id] : i \in 1..Len(new)}
                      ELSE pushed
       /\ UNCHANGED <<active, last, userUpdates, reqs, online>>

\* The two effects of the first render: fetch on mount, and
\* connection.start().
Mount ==
  /\ ~client.mounted
  /\ client' = [FetchIssued(client, "mount") EXCEPT !.mounted = TRUE,
                                                    !.conn = "connecting"]
  /\ ClientUnchanged

\* connection.start() succeeds: OnConnectedAsync, then setIsConnected(true).
Started ==
  /\ client.conn = "connecting"
  /\ online' = online \cup {ClientUser}
  /\ client' = [client EXCEPT !.conn = "connected", !.isConnected = TRUE]
  /\ UNCHANGED <<tickets, history, notifications, messages, active, clock,
                 last, userUpdates, reqs, pushed>>

\* connection.start() fails, or the retries of withAutomaticReconnect are
\* used up (onclose): setIsConnected(false), no connection any more.
Closed ==
  /\ client.conn \in {"connecting", "reconnecting"}
  /\ client' = [client EXCEPT !.conn = "closed", !.isConnected = FALSE]
  /\ ClientUnchanged

\* The connection drops: OnDisconnectedAsync, onreconnecting; the
\* messages on their way are lost.
Dropped ==
  /\ client.conn = "connected"
  /\ online' = online \ {ClientUser}
  /\ client' = [client EXCEPT !.conn = "reconnecting",
                              !.isConnected = FALSE, !.wire = <<>>]
  /\ UNCHANGED <<tickets, history, notifications, messages, active, clock,
                 last, userUpdates, reqs, pushed>>

\* onreconnected: setIsConnected(true); fetchNotifications().
Reconnected ==
  /\ client.conn = "reconnecting"
  /\ client.fetches["reconnect"].pc \in {"free", "done"}
  /\ online' = online \cup {ClientUser}
  /\ client' = [FetchIssued(client, "reconnect")
                  EXCEPT !.conn = "connected", !.isConnected = TRUE]
  /\ UNCHANGED <<tickets, history, notifications, messages, active, clock,
                 last, userUpdates, reqs, pushed>>

\* GetNotifications runs on the server for a call that was sent.
FetchServerRead(k) ==
  /\ client.fetches[k].pc = "sent"
  /\ client' = [client EXCEPT !.fetches[k].pc = "read",
                              !.fetches[k].result =
                                 GetNotifications(ClientUser)]
  /\ ClientUnchanged

\* The answer arrives: setNotifications(notifs).
FetchResponse(k) ==
  /\ client.fetches[k].pc = "read"
  /\ client' = [client EXCEPT !.list = client.fetches[k].result,
                              !.fetches[k].pc = "done"]
  /\ ClientUnchanged

\* The call fails (catch): the list stays.
FetchFails(k) ==
  /\ client.fetches[k].pc \in {"sent", "read"}
  /\ client' = [client EXCEPT !.fetches[k] = NoFetch]
  /\ ClientUnchanged

\* connection.on('ReceiveNotification'): the notification goes in front of
\* the list unless one with its id is in the list.
ReceiveNotification ==
  LET notification == Head(client.wire)
      exists == \E i \in 1..Len(client.list) :
                  client.list[i].Id = notification.Id
  IN /\ client.wire # <<>>
     /\ client' = [client EXCEPT
                     !.wire = Tail(@),
                     !.list = IF exists THEN @ ELSE <<notification>> \o @]
     /\ ClientUnchanged

\* handleMarkAsRead of an entry of the list: markAsRead(id) on the server,
\* then the entry is filtered out of the list.
HandleMarkAsRead ==
  \E i \in 1..Len(client.list) :
    LET notificationId == client.list[i].Id
        r == MarkAsRead(ClientUser, notificationId)
    IN /\ r.code = "Ok"
       /\ notifications' = r.notifications
       /\ client' = [client EXCEPT !.list =
                       SelectSeq(@, LAMBDA n : n.Id # notificationId)]
       /\ UNCHANGED <<tickets, history, messages, active, clock, last,
                      userUpdates, reqs, online, pushed>>

\* handleMarkAllAsRead: markAllAsRead() on the server, then the list is
\* emptied.
HandleMarkAllAsRead ==
  /\ client.mounted
  /\ client.list # <<>>
  /\ notifications' = MarkAllAsRead(ClientUser).notifications
  /\ client' = [client EXCEPT !.list = <<>>]
  /\ UNCHANGED <<tickets, history, messages, active, clock, last,
                 userUpdates, reqs, online, pushed>>

NextClient ==
  \/ ClientServerRequest
  \/ Mount
  \/ Started
  \/ Closed
  \/ Dropped
  \/ Reconnected
  \/ \E k \in FetchSlots : FetchServerRead(k)
  \/ \E k \in FetchSlots : FetchResponse(k)
  \/ \E k \in FetchSlots : FetchFails(k)
  \/ ReceiveNotification
  \/ HandleMarkAsRead
  \/ HandleMarkAllAsRead

SpecClient == Init /\ [][NextClient]_vars

\* A getNotifications call that was sent is read by the server, and an
\* answer that the server has written arrives.
SpecClientLive ==
  /\ SpecClient
  /\ \A k \in FetchSlots : WF_vars(FetchServerRead(k))
  /\ \A k \in FetchSlots : WF_vars(FetchResponse(k))

\* ------------------------------------------------- every request at once
\* The requests of every user on a ticket, as records, and what the handler
\* of each returns in the current state.

Req(op, userId, id, arg) ==
  [op |-> op, userId |-> userId, id |-> id, arg |-> arg]

\* P(req, r) of every request req of a user on ticket id, r what its
\* handler returns.
ForAllRequestsOf(userId, id, P(_, _)) ==
  /\ \A d \in DeveloperIdInputs :
       /\ P(Req("assign", userId, id, d), AssignTicket(userId, id, d))
       /\ P(Req("reassign", userId, id, d), ReassignTicket(userId, id, d))
  /\ \A dto \in UpdateTicketStatusDtos :
       P(Req("changeStatus", userId, id, dto),
         UpdateTicketStatus(userId, id, dto))
  /\ \A dto \in CloseTicketDtos :
       P(Req("close", userId, id, dto), CloseTicket(userId, id, dto))
  /\ \A comment \in ReopenComments :
       P(Req("reopen", userId, id, comment),
         ReopenTicket(userId, id, comment))
  /\ P(Req("archive", userId, id, Null), ArchiveTicket(userId, id))
  /\ P(Req("unarchive", userId, id, Null), UnarchiveTicket(userId, id))
  /\ \A dto \in SendMessageDtos :
       P(Req("sendMessage", userId, id, dto), SendMessage(userId, id, dto))

ForAllRequestsOn(id, P(_, _)) ==
  \A userId \in UserIds : ForAllRequestsOf(userId, id, P)

\* A request left the ticket rows, the audit trail and the notifications
\* as they were.
NothingWritten(r) ==
  /\ r.tickets = tickets
  /\ r.history = history
  /\ r.notifications = notifications
  /\ r.messages = messages

\* ===================================================================== C1
\* C1: Closed is terminal when requests run one at a time. On a Closed
\* ticket every request of every caller leaves Status = Closed, the only
\* requests accepted are archive and unarchive by an Admin, and no step of
\* the system takes a ticket out of Closed.
C1_ClosedOnlyArchives ==
  \A id \in 1..Len(tickets) :
    tickets[id].Status = "Closed" =>
      LET P(req, r) ==
            /\ r.tickets[id].Status = "Closed"
            /\ r.code = "Ok" =>
                 /\ req.op \in {"archive", "unarchive"}
                 /\ GetCurrentUserRole(req.userId) = "Admin"
            /\ r.code # "Ok" => NothingWritten(r)
      IN ForAllRequestsOn(id, P)

C1_ClosedStays ==
  \A id \in 1..Len(tickets) :
    tickets[id].Status = "Closed" =>
      /\ Len(tickets') >= id
      /\ tickets'[id].Status = "Closed"

C1_ClosedIsTerminal == [] C1_ClosedOnlyArchives /\ [][C1_ClosedStays]_vars

\* C1 witness: a Closed ticket was archived and unarchived again, and a
\* status change by the admin is refused on it.
C1_Witness ==
  /\ last.op = "unarchive"
  /\ tickets[last.ticketId].Status = "Closed"
  /\ ~tickets[last.ticketId].IsArchived
  /\ UpdateTicketStatus(1, last.ticketId,
                        [Status |-> "Open", Comments |-> NullStr]).code
       = "BadRequest"

\* ===================================================================== C5
\* C5: every accepted create, assign, reassign, changeStatus, close,
\* reopen, archive or unarchive appends exactly one history row, for that
\* ticket, and leaves the ticket's UpdatedAt strictly later than it was;
\* a rejected one appends none.
MutationOps ==
  {"assign", "reassign", "changeStatus", "close", "reopen", "archive",
   "unarchive"}

C5_OneRow(r, id) ==
  /\ Len(r.history) = Len(history) + 1
  /\ SubSeq(r.history, 1, Len(history)) = history
  /\ r.history[Len(r.history)].TicketId = id

C5_EveryRequest ==
  /\ \A id \in 1..Len(tickets) :
       LET P(req, r) ==
             req.op \in MutationOps =>
               IF r.code = "Ok"
                 THEN /\ C5_OneRow(r, id)
                      /\ r.tickets[id].UpdatedAt > tickets[id].UpdatedAt
                 ELSE r.history = history /\ r.tickets = tickets
       IN ForAllRequestsOn(id, P)
  /\ \A userId \in UserIds, dto \in CreateTicketDtos :
       LET r == CreateTicket(userId, dto)
       IN IF r.code = "Ok"
            THEN /\ C5_OneRow(r, Len(tickets) + 1)
                 /\ Len(r.tickets) = Len(tickets) + 1
            ELSE r.history = history /\ r.tickets = tickets

\* The same of the steps taken: a step that writes a ticket row appends
\* one history row, for that ticket, and moves its UpdatedAt forward.
C5_EveryStep ==
  tickets' # tickets =>
    /\ Len(history') = Len(history) + 1
    /\ SubSeq(history', 1, Len(history)) = history
    /\ \E id \in 1..Len(tickets') :
         /\ history'[Len(history')].TicketId = id
         /\ \A j \in 1..Len(tickets) : j # id => tickets'[j] = tickets[j]
         /\ id <= Len(tickets) =>
              tickets'[id].UpdatedAt > tickets[id].UpdatedAt

C5_OneHistoryEntryPerMutation == [] C5_EveryRequest /\ [][C5_EveryStep]_vars

\* C5 witness: a reassignment was accepted; the ticket has three rows of
\* history (created, assigned, reassigned) and a later UpdatedAt.
C5_Witness ==
  /\ last.op = "reassign"
  /\ Len(history) = 3
  /\ history[3].Action = "Reassigned"
  /\ tickets[last.ticketId].UpdatedAt > tickets[last.ticketId].AssignedAt

\* ===================================================================== C2
\* C2: a Developer changes a ticket's status only by changeStatus on a
\* ticket assigned to them, along InProgress -> Resolved or
\* Reopened -> InProgress; every other request of a Developer (assign,
\* reassign, changeStatus, close, reopen, archive, unarchive) is rejected
\* and writes nothing.
DeveloperTransitions ==
  {<<"InProgress", "Resolved">>, <<"Reopened", "InProgress">>}

C2_EveryRequest ==
  \A id \in 1..Len(tickets) :
    \A userId \in {u \in UserIds : Users[u].Role = "Developer"} :
      LET P(req, r) ==
            req.op \in MutationOps =>
              IF r.code = "Ok"
                THEN /\ req.op = "changeStatus"
                     /\ tickets[id].AssignedDeveloperId = userId
                     /\ <<tickets[id].Status, r.tickets[id].Status>>
                          \in DeveloperTransitions
                ELSE NothingWritten(r)
      IN ForAllRequestsOf(userId, id, P)

C2_EveryStep ==
  \A id \in 1..Len(tickets) :
    (/\ tickets'[id].Status # tickets[id].Status
     /\ Users[last'.userId].Role = "Developer") =>
      /\ last'.op = "changeStatus"
      /\ tickets[id].AssignedDeveloperId = last'.userId
      /\ <<tickets[id].Status, tickets'[id].Status>> \in DeveloperTransitions

C2_DeveloperTransitionsOnly == [] C2_EveryRequest /\ [][C2_EveryStep]_vars

\* C2 witness: the assigned developer resolved the ticket; the same
\* developer may not close it, and the other developer may not touch it.
C2_Witness ==
  /\ last.op = "changeStatus"
  /\ Users[last.userId].Role = "Developer"
  /\ tickets[last.ticketId].Status = "Resolved"
  /\ tickets[last.ticketId].AssignedDeveloperId = last.userId
  /\ CloseTicket(last.userId, last.ticketId,
                 [Comments |-> NullStr, SatisfactionScore |-> Null,
                  SatisfactionComment |-> NullStr]).code = "Forbidden"
  /\ \E other \in UserIds :
       /\ other # last.userId
       /\ Users[other].Role = "Developer"
       /\ UpdateTicketStatus(other, last.ticketId,
                             [Status |-> "InProgress",
                              Comments |-> NullStr]).code = "Forbidden"

\* ===================================================================== C3
\* The transition table of the design (role, current -> next).
InTransitionTable(userRole, current, next) ==
  CASE userRole = "Admin" -> current # "Closed"
    [] userRole = "Developer" -> <<current, next>> \in DeveloperTransitions
    [] userRole = "EndUser" ->
         current = "Resolved" /\ next \in {"Closed", "Reopened"}

\* The messages ValidateStatusTransition rejects with (InvalidTransition).
InvalidTransitionMessages ==
  {"Cannot modify closed tickets",
   "Developer cannot change Open tickets. Wait for assignment.",
   "Cannot change status of resolved ticket. Client must close or request changes.",
   "Unauthorized to change status"}
  \cup {"Invalid transition from " \o current \o " to " \o next :
          current \in TicketStatus, next \in TicketStatus}

\* C3 as claimed: for every role and every pair outside the table,
\* changeStatus is rejected with InvalidTransition and writes nothing.
C3_Original ==
  \A id \in 1..Len(tickets), userId \in UserIds :
    \A dto \in UpdateTicketStatusDtos :
      (/\ dto.Status \in TicketStatus
       /\ ~InTransitionTable(Users[userId].Role, tickets[id].Status,
                             dto.Status)) =>
        LET r == UpdateTicketStatus(userId, id, dto)
        IN /\ r.code = "BadRequest"
           /\ r.msg \in InvalidTransitionMessages
           /\ NothingWritten(r)

\* C3 as amended: for every role and every pair outside the table,
\* changeStatus is rejected and writes nothing; the error is
\* InvalidTransition for an Admin and for the ticket's assigned Developer,
\* and Forbidden for a requester and for a Developer who is not the
\* assignee.
C3_RejectedOutsideTable ==
  \A id \in 1..Len(tickets), userId \in UserIds :
    \A dto \in UpdateTicketStatusDtos :
      (/\ dto.Status \in TicketStatus
       /\ ~InTransitionTable(Users[userId].Role, tickets[id].Status,
                             dto.Status)) =>
        LET r == UpdateTicketStatus(userId, id, dto)
            validated ==
              \/ Users[userId].Role = "Admin"
              \/ /\ Users[userId].Role = "Developer"
                 /\ tickets[id].AssignedDeveloperId = userId
        IN /\ NothingWritten(r)
           /\ IF validated
                THEN /\ r.code = "BadRequest"
                     /\ r.msg \in InvalidTransitionMessages
                ELSE r.code = "Forbidden"

\* C3 witness: the assigned developer asks for Resolved -> InProgress and
\* gets the validator's refusal, and a requester's changeStatus on the
\* same ticket is Forbidden.
C3_Witness ==
  \E id \in 1..Len(tickets) :
    /\ tickets[id].Status = "Resolved"
    /\ tickets[id].AssignedDeveloperId \in UserIds
    /\ LET r == UpdateTicketStatus(tickets[id].AssignedDeveloperId, id,
                                   [Status |-> "InProgress",
                                    Comments |-> NullStr])
       IN /\ r.code = "BadRequest"
          /\ r.msg = "Cannot change status of resolved ticket. Client must close or request changes."
    /\ UpdateTicketStatus(tickets[id].CreatedByUserId, id,
                          [Status |-> "Open", Comments |-> NullStr]).code
         = "Forbidden"

\* ===================================================================== C4
\* C4: listTickets, getTicket, the history and the messages show an EndUser
\* only tickets they created and a Developer only tickets currently
\* assigned to them (a reassigned ticket is gone for the old developer at
\* once); an Admin sees every ticket.
C4_Visibility ==
  \A id \in 1..Len(tickets), userId \in UserIds :
    LET shown == \/ id \in GetTickets(userId, TRUE)
                 \/ id \in GetTickets(userId, FALSE)
                 \/ GetTicket(userId, id) = "Ok"
                 \/ GetTicketHistory(userId, id).code = "Ok"
                 \/ GetMessages(userId, id).code = "Ok"
    IN CASE Users[userId].Role = "EndUser" ->
              shown => tickets[id].CreatedByUserId = userId
         [] Users[userId].Role = "Developer" ->
              shown => tickets[id].AssignedDeveloperId = userId
         [] Users[userId].Role = "Admin" ->
              /\ id \in GetTickets(userId, TRUE)
              /\ GetTicket(userId, id) = "Ok"
              /\ GetTicketHistory(userId, id).code = "Ok"
              /\ GetMessages(userId, id).code = "Ok"

\* C4 witness: the ticket was reassigned; the new developer sees it, the
\* developer it was taken from and a requester who did not create it do
\* not.
C4_Witness ==
  /\ last.op = "reassign"
  /\ \E old \in UserIds :
       /\ history[Len(history)].Action = "Reassigned"
       /\ history[Len(history)].OldValue = Users[old].Name
       /\ old # tickets[last.ticketId].AssignedDeveloperId
       /\ last.ticketId \notin GetTickets(old, TRUE)
       /\ GetTicket(old, last.ticketId) = "Forbidden"
       /\ GetTicketHistory(old, last.ticketId).code = "Forbidden"
       /\ GetMessages(old, last.ticketId).code = "Forbidden"
  /\ last.ticketId
       \in GetTickets(tickets[last.ticketId].AssignedDeveloperId, FALSE)
  /\ \E other \in UserIds :
       /\ Users[other].Role = "EndUser"
       /\ other # tickets[last.ticketId].CreatedByUserId
       /\ GetTicket(other, last.ticketId) = "Forbidden"

\* ===================================================================== C9
\* C9: reopen with a missing, empty or blank comment is rejected for every
\* caller and every status of the ticket, and writes nothing: no status
\* change, no history row, no notification; every reopen that is accepted
\* carries a comment that is not blank.
BlankComments == {NullStr, "", " ", "  "}

C9_EveryRequest ==
  \A id \in 1..Len(tickets), userId \in UserIds :
    \A comment \in ReopenComments \cap BlankComments :
      LET r == ReopenTicket(userId, id, comment)
      IN /\ r.code # "Ok"
         /\ NothingWritten(r)

C9_EveryStep ==
  (last'.op = "reopen" /\ history' # history) =>
    history'[Len(history')].Comments \notin BlankComments

C9_ReopenNeedsComment == [] C9_EveryRequest /\ [][C9_EveryStep]_vars

\* C9 witness: a Resolved ticket whose creator is refused the reopen with a
\* blank comment while the same request with a comment would be accepted.
C9_Witness ==
  \E id \in 1..Len(tickets) :
    /\ tickets[id].Status = "Resolved"
    /\ ReopenTicket(tickets[id].CreatedByUserId, id, " ").code = "BadRequest"
    /\ ReopenTicket(tickets[id].CreatedByUserId, id, "").code = "BadRequest"
    /\ ReopenTicket(tickets[id].CreatedByUserId, id, "still broken").code
         = "Ok"

\* ===================================================================== C10
\* The rows of a table added after the first n.
RowsAfter(rows, n) == SubSeq(rows, n + 1, Len(rows))

\* C10: reopen with a comment by the ticket's creator or an Admin is
\* accepted exactly when the ticket is Resolved. When accepted the status
\* is Reopened, reopenCount is one more, and the notification rows created
\* are exactly one for the assigned developer (if any) and one for each
\* active Admin; when rejected nothing is written.
C10_EveryRequest ==
  \A id \in 1..Len(tickets), userId \in UserIds :
    \A comment \in ReopenComments \ BlankComments :
      (\/ Users[userId].Role = "Admin"
       \/ tickets[id].CreatedByUserId = userId) =>
        LET r == ReopenTicket(userId, id, comment)
            created == RowsAfter(r.notifications, Len(notifications))
            RowsFor(u) ==
              Cardinality({k \in 1..Len(created) : created[k].UserId = u})
        IN /\ r.code = "Ok" <=> tickets[id].Status = "Resolved"
           /\ r.code # "Ok" => NothingWritten(r)
           /\ r.code = "Ok" =>
                /\ r.tickets[id].Status = "Reopened"
                /\ r.tickets[id].ReopenCount = tickets[id].ReopenCount + 1
                /\ SubSeq(r.notifications, 1, Len(notifications))
                     = notifications
                /\ \A k \in 1..Len(created) : created[k].RelatedTicketId = id
                /\ \A u \in UserIds :
                     RowsFor(u) =
                       IF \/ tickets[id].AssignedDeveloperId = u
                          \/ Users[u].Role = "Admin" /\ active[u]
                         THEN 1 ELSE 0

C10_EveryStep ==
  (last'.op = "reopen" /\ history' # history) =>
    LET id == last'.ticketId
    IN /\ tickets[id].Status = "Resolved"
       /\ tickets'[id].Status = "Reopened"
       /\ tickets'[id].ReopenCount = tickets[id].ReopenCount + 1

C10_ReopenFromResolved == [] C10_EveryRequest /\ [][C10_EveryStep]_vars

\* C10 witness: the creator reopened a Resolved ticket that has a
\* developer; the developer and both Admins got one notification each.
C10_Witness ==
  /\ last.op = "reopen"
  /\ last.userId = tickets[last.ticketId].CreatedByUserId
  /\ tickets[last.ticketId].Status = "Reopened"
  /\ tickets[last.ticketId].ReopenCount = 1
  /\ tickets[last.ticketId].AssignedDeveloperId \in UserIds
  /\ \A u \in {tickets[last.ticketId].AssignedDeveloperId}
               \cup {a \in UserIds : Users[a].Role = "Admin"} :
       Cardinality({k \in 1..Len(notifications) :
                      /\ notifications[k].UserId = u
                      /\ notifications[k].Type = "TicketReopened"}) = 1

\* ===================================================================== C6
InFlight(c) == reqs[c].pc \in {"save", "log", "notify"}

\* C6: the ticket write and the history row of a mutation are committed
\* together. Whenever no request is being handled (all were answered, or
\* the process died), every ticket row in the store has a history row
\* written after the ticket's last write, and every history row has its
\* ticket row.
C6_AtomicMutation ==
  (\A c \in Connections : ~InFlight(c)) =>
    /\ \A id \in 1..Len(tickets) :
         \E k \in 1..Len(history) :
           /\ history[k].TicketId = id
           /\ history[k].ChangedAt > tickets[id].UpdatedAt
    /\ \A k \in 1..Len(history) : history[k].TicketId \in 1..Len(tickets)

\* ===================================================================== C7
\* Two changeStatus requests on the same ticket that read the same version
\* of the row and both were answered.
Raced(a, b) ==
  /\ a # b
  /\ reqs[a].pc = "done" /\ reqs[b].pc = "done"
  /\ reqs[a].op = "changeStatus" /\ reqs[b].op = "changeStatus"
  /\ reqs[a].ticketId = reqs[b].ticketId
  /\ reqs[a].snapshot = reqs[b].snapshot

\* C7: of two changeStatus requests that race on a ticket exactly one
\* succeeds, the other is answered Conflict, and one history row is
\* written for the transition.
C7_OneWinner ==
  \A a, b \in Connections :
    Raced(a, b) =>
      /\ {reqs[a].code, reqs[b].code} = {"Ok", "Conflict"}
      /\ Cardinality({c \in {a, b} : reqs[c].row # 0}) = 1

\* ===================================================================== C8
\* C8: a request whose transition was validated against a status that is
\* no longer the stored one when it saves writes nothing, and no step
\* takes a ticket out of Closed while requests overlap.
C8_StaleSaveWritesNothing ==
  \A c \in Connections :
    (/\ reqs[c].pc = "save"
     /\ reqs'[c].pc = "log"
     /\ reqs[c].op # "create"
     /\ reqs[c].snapshot.Status # tickets[reqs[c].ticketId].Status) =>
      tickets' = tickets

C8_ClosedStaysUnderOverlap ==
  \A id \in 1..Len(tickets) :
    tickets[id].Status = "Closed" => tickets'[id].Status = "Closed"

C8_NoStaleOverwrite ==
  [][C8_StaleSaveWritesNothing /\ C8_ClosedStaysUnderOverlap]_vars

\* ==================================================================== C11
\* C11: reopenCount never decreases and counts the times the status
\* changed into Reopened, by reopen or by changeStatus: a step that takes a
\* ticket into Reopened adds one to ReopenCount and writes a history row
\* with a comment that is not blank; every other step leaves ReopenCount
\* as it was.
C11_EveryStep ==
  \A id \in 1..Len(tickets) :
    LET entered == /\ tickets'[id].Status = "Reopened"
                   /\ tickets[id].Status # "Reopened"
    IN /\ tickets'[id].ReopenCount
            = tickets[id].ReopenCount + (IF entered THEN 1 ELSE 0)
       /\ entered =>
            /\ Len(history') > Len(history)
            /\ history'[Len(history')].Comments \notin BlankComments

C11_ReopenCountCounts == [][C11_EveryStep]_vars

\* ==================================================================== C12
\* C12: a requester closes a ticket only from Resolved: close by the
\* creator on an Open, InProgress or Reopened ticket is rejected and writes
\* nothing; close by a requester who is not the creator is Forbidden.
C12_RequesterClosesFromResolved ==
  \A id \in 1..Len(tickets) :
    \A userId \in {u \in UserIds : Users[u].Role = "EndUser"} :
      \A dto \in CloseTicketDtos :
        LET r == CloseTicket(userId, id, dto)
        IN IF tickets[id].CreatedByUserId = userId
             THEN tickets[id].Status \in {"Open", "InProgress", "Reopened"} =>
                    /\ r.code # "Ok"
                    /\ NothingWritten(r)
             ELSE r.code = "Forbidden" /\ NothingWritten(r)

\* ==================================================================== C13
\* C13: close of a Resolved ticket by its creator or an Admin with a score
\* outside 1..5 is rejected with the validation error and writes nothing;
\* with a score inside 1..5 it is accepted, the status becomes Closed and
\* the score, its comment and RatedAt are stored with the status change.
C13_ScoreValidated ==
  \A id \in 1..Len(tickets) :
    tickets[id].Status = "Resolved" =>
      \A userId \in {u \in UserIds : \/ Users[u].Role = "Admin"
                                     \/ tickets[id].CreatedByUserId = u} :
        \A dto \in {d \in CloseTicketDtos : d.SatisfactionScore # Null} :
          LET r == CloseTicket(userId, id, dto)
          IN IF dto.SatisfactionScore \in 1..5
               THEN /\ r.code = "Ok"
                    /\ r.tickets[id].Status = "Closed"
                    /\ r.tickets[id].SatisfactionScore = dto.SatisfactionScore
                    /\ r.tickets[id].SatisfactionComment
                         = dto.SatisfactionComment
                    /\ r.tickets[id].RatedAt # Null
                    /\ r.tickets[id].RatedAt = r.tickets[id].ClosedAt
                    /\ r.tickets[id].RatedAt = r.tickets[id].UpdatedAt
               ELSE /\ r.code = "BadRequest"
                    /\ r.msg = "Satisfaction score must be between 1 and 5"
                    /\ NothingWritten(r)
                    /\ tickets[id].ClosedAt = Null
                    /\ tickets[id].RatedAt = Null
                    /\ tickets[id].SatisfactionScore = Null

\* C13 witness: a Resolved ticket whose creator is refused the close with
\* score 6 and would be accepted with score 5.
C13_Witness ==
  \E id \in 1..Len(tickets) :
    /\ tickets[id].Status = "Resolved"
    /\ \E bad, good \in CloseTicketDtos :
         /\ bad.SatisfactionScore = 6
         /\ good.SatisfactionScore = 5
         /\ CloseTicket(tickets[id].CreatedByUserId, id, bad).code
              = "BadRequest"
         /\ LET r == CloseTicket(tickets[id].CreatedByUserId, id, good)
            IN /\ r.code = "Ok"
               /\ r.tickets[id].SatisfactionScore = 5
               /\ r.tickets[id].RatedAt = clock + 1

\* ==================================================================== C14
\* C14: an accepted close (Resolved -> Closed, by the requester or an
\* Admin) creates no notification row.
C14_CloseNotifiesNobody ==
  \A id \in 1..Len(tickets), userId \in UserIds :
    tickets[id].Status = "Resolved" =>
      \A dto \in CloseTicketDtos :
        LET r == CloseTicket(userId, id, dto)
        IN r.code = "Ok" => r.notifications = notifications

\* ==================================================================== C15
\* C15: an archived ticket is Closed; archive is accepted only for an Admin
\* on a Closed ticket that is not archived, unarchive only for an Admin on
\* an archived ticket, and neither changes the status.
C15_ArchivedIsClosed ==
  \A id \in 1..Len(tickets) :
    /\ tickets[id].IsArchived => tickets[id].Status = "Closed"
    /\ \A userId \in UserIds :
         LET a == ArchiveTicket(userId, id)
             u == UnarchiveTicket(userId, id)
         IN /\ a.code = "Ok" =>
                 /\ Users[userId].Role = "Admin"
                 /\ tickets[id].Status = "Closed"
                 /\ ~tickets[id].IsArchived
                 /\ a.tickets[id].IsArchived
                 /\ a.tickets[id].Status = tickets[id].Status
            /\ u.code = "Ok" =>
                 /\ Users[userId].Role = "Admin"
                 /\ tickets[id].IsArchived
                 /\ ~u.tickets[id].IsArchived
                 /\ u.tickets[id].Status = tickets[id].Status
            /\ a.code # "Ok" => NothingWritten(a)
            /\ u.code # "Ok" => NothingWritten(u)

\* C15 witness: an Admin archived a Closed ticket; a second archive is
\* refused and the unarchive would be accepted.
C15_Witness ==
  /\ last.op = "archive"
  /\ tickets[last.ticketId].IsArchived
  /\ tickets[last.ticketId].Status = "Closed"
  /\ ArchiveTicket(last.userId, last.ticketId).code = "BadRequest"
  /\ UnarchiveTicket(last.userId, last.ticketId).code = "Ok"

\* ==================================================================== C16
\* C16: while a ticket is archived every mutation request of every caller
\* (changeStatus, assign, reassign, close, reopen, sendMessage, archive)
\* is rejected and writes nothing; only unarchive by an Admin is accepted.
C16_ArchivedIsReadOnly ==
  \A id \in 1..Len(tickets) :
    tickets[id].IsArchived =>
      LET P(req, r) ==
            IF r.code = "Ok"
              THEN /\ req.op = "unarchive"
                   /\ Users[req.userId].Role = "Admin"
              ELSE NothingWritten(r)
      IN ForAllRequestsOn(id, P)

\* C16 witness: an archived ticket; its creator's message and an Admin's
\* reassignment are refused.
C16_Witness ==
  \E id \in 1..Len(tickets) :
    /\ tickets[id].IsArchived
    /\ SendMessage(tickets[id].CreatedByUserId, id,
                   [Message |-> "hello", files |-> "none"]).code = "BadRequest"
    /\ \E userId \in UserIds :
         /\ Users[userId].Role = "Admin"
         /\ ReassignTicket(userId, id, 3).code = "BadRequest"
         /\ UnarchiveTicket(userId, id).code = "Ok"

\* ==================================================================== C17
\* C17: an accepted assignment by an Admin, through assign or reassign,
\* leaves an Open ticket InProgress and any other status as it was; the
\* history row is Assigned when no developer was set before and
\* Reassigned when one was.
C17_Assigned(id, r) ==
  r.code = "Ok" =>
    /\ r.tickets[id].Status =
         IF tickets[id].Status = "Open" THEN "InProgress"
         ELSE tickets[id].Status
    /\ r.history[Len(r.history)].Action =
         IF tickets[id].AssignedDeveloperId = Null THEN "Assigned"
         ELSE "Reassigned"

C17_AssignmentAdvancesOpen ==
  \A id \in 1..Len(tickets) :
    \A userId \in {u \in UserIds : Users[u].Role = "Admin"} :
      \A d \in DeveloperIdInputs :
        /\ C17_Assigned(id, AssignTicket(userId, id, d))
        /\ C17_Assigned(id, ReassignTicket(userId, id, d))

\* ==================================================================== C18
\* The actions the design hides from a role.
HiddenActions(userRole) ==
  CASE userRole = "Admin" -> {}
    [] userRole = "Developer" ->
         {"PriorityChanged", "Archived", "Unarchived", "SatisfactionRated"}
    [] userRole = "EndUser" ->
         {"Reassigned", "PriorityChanged", "Archived", "Unarchived",
          "AttachmentAdded"}

MayView(userId, id) ==
  \/ Users[userId].Role = "Admin"
  \/ Users[userId].Role = "Developer"
       /\ tickets[id].AssignedDeveloperId = userId
  \/ Users[userId].Role = "EndUser" /\ tickets[id].CreatedByUserId = userId

\* C18: for an actor allowed to view the ticket getHistory returns exactly
\* the rows of the ticket's audit log whose action is not hidden from the
\* actor's role, oldest first; any other actor gets Forbidden and no rows.
C18_HistoryFiltered ==
  \A id \in 1..Len(tickets), userId \in UserIds :
    LET h == GetTicketHistory(userId, id)
    IN IF MayView(userId, id)
         THEN /\ h.code = "Ok"
              /\ h.rows =
                   SelectSeq(history,
                             LAMBDA e :
                               /\ e.TicketId = id
                               /\ e.Action
                                    \notin HiddenActions(Users[userId].Role))
              /\ \A k \in 1..(Len(h.rows) - 1) :
                   h.rows[k].ChangedAt <= h.rows[k + 1].ChangedAt
         ELSE h.code = "Forbidden" /\ h.rows = <<>>

\* C18 witness: a ticket with Created, Reassigned, Closed and Archived
\* rows: the Admin reads four rows, the developer three, the creator two.
C18_Witness ==
  \E id \in 1..Len(tickets) :
    /\ {history[k].Action : k \in 1..Len(history)}
         = {"Created", "Reassigned", "Closed", "Archived"}
    /\ tickets[id].AssignedDeveloperId \in UserIds
    /\ Len(GetTicketHistory(1, id).rows) = 4
    /\ Len(GetTicketHistory(tickets[id].AssignedDeveloperId, id).rows) = 3
    /\ Len(GetTicketHistory(tickets[id].CreatedByUserId, id).rows)
         = IF Users[tickets[id].CreatedByUserId].Role = "Admin" THEN 4 ELSE 2
    /\ Users[tickets[id].CreatedByUserId].Role = "EndUser"

\* ==================================================================== C19
\* The history rows of a ticket that record a status, as an Admin reads
\* them.
StatusEntries(id) ==
  SelectSeq(GetTicketHistory(1, id).rows,
            LAMBDA e : e.NewValue \in TicketStatus)

\* C19: the status values of the history, read oldest first, are the
\* statuses the ticket passed through and end with its current status:
\* each entry starts where the one before ended, the last one gives the
\* ticket's status, and every step that changes the status (the
\* Open -> InProgress of an assignment included) appends the entry of
\* that change.
C19_Chain ==
  \A id \in 1..Len(tickets) :
    LET es == StatusEntries(id)
    IN /\ Len(es) > 0
       /\ es[1].NewValue = "Open"
       /\ \A k \in 2..Len(es) : es[k].OldValue = es[k - 1].NewValue
       /\ es[Len(es)].NewValue = tickets[id].Status

C19_EveryStep ==
  \A id \in 1..Len(tickets) :
    tickets'[id].Status # tickets[id].Status =>
      /\ Len(history') = Len(history) + 1
      /\ history'[Len(history')].TicketId = id
      /\ history'[Len(history')].OldValue = tickets[id].Status
      /\ history'[Len(history')].NewValue = tickets'[id].Status

C19_HistoryReplaysStatus == [] C19_Chain /\ [][C19_EveryStep]_vars

\* ==================================================================== C20
LifecycleTimestamps ==
  {"AssignedAt", "InProgressAt", "ResolvedAt", "ReopenedAt", "ClosedAt"}

\* C20: a lifecycle timestamp is written at most once: once it has a
\* value no step replaces it.
C20_EveryStep ==
  \A id \in 1..Len(tickets), f \in LifecycleTimestamps :
    tickets[id][f] # Null => tickets'[id][f] = tickets[id][f]

C20_TimestampsWrittenOnce == [][C20_EveryStep]_vars

\* ==================================================================== C27
\* The ticket ids a request may name: the tickets there are and one more.
TicketIdInputs == 1..(Len(tickets) + 1)

\* C27: getTicket, getHistory, the message read and the message write
\* answer NotFound exactly when no ticket has the id, and Forbidden
\* exactly when the ticket exists and the caller is a Developer who is not
\* its assignee or a requester who is not its creator.
C27_Codes(userId, id, code) ==
  /\ code = "NotFound" <=> id \notin 1..Len(tickets)
  /\ code = "Forbidden" <=> (id \in 1..Len(tickets) /\ ~MayView(userId, id))

C27_NotFoundOrForbidden ==
  \A userId \in UserIds, id \in TicketIdInputs :
    /\ C27_Codes(userId, id, GetTicket(userId, id))
    /\ C27_Codes(userId, id, GetTicketHistory(userId, id).code)
    /\ C27_Codes(userId, id, GetMessages(userId, id).code)
    /\ \A dto \in SendMessageDtos :
         C27_Codes(userId, id, SendMessage(userId, id, dto).code)

\* C27 witness: a ticket with a developer; the other developer and the
\* other requester are Forbidden to read it and to write to it, and the
\* next id is NotFound for everybody.
C27_Witness ==
  \E id \in 1..Len(tickets) :
    /\ tickets[id].AssignedDeveloperId = 3
    /\ tickets[id].CreatedByUserId = 5
    /\ GetTicket(4, id) = "Forbidden"
    /\ GetMessages(6, id).code = "Forbidden"
    /\ SendMessage(4, id, [Message |-> "hello", files |-> "none"]).code
         = "Forbidden"
    /\ \A userId \in UserIds :
         /\ GetTicket(userId, Len(tickets) + 1) = "NotFound"
         /\ SendMessage(userId, Len(tickets) + 1,
                        [Message |-> "hello", files |-> "none"]).code
              = "NotFound"

\* ==================================================================== C29
\* C29: createTicket is accepted only for a requester or an Admin and only
\* for an existing active project; the new ticket is Open, has no
\* developer, ReopenCount 0 and is not archived, and the notification rows
\* created are exactly one per active Admin.
C29_CreateTicket ==
  \A userId \in UserIds, dto \in CreateTicketDtos :
    LET r == CreateTicket(userId, dto)
        id == Len(tickets) + 1
        created == RowsAfter(r.notifications, Len(notifications))
    IN IF r.code = "Ok"
         THEN /\ Users[userId].Role \in {"EndUser", "Admin"}
              /\ dto.ProjectId \in DOMAIN Projects
              /\ Projects[dto.ProjectId].IsActive
              /\ Len(r.tickets) = id
              /\ SubSeq(r.tickets, 1, Len(tickets)) = tickets
              /\ r.tickets[id].Status = "Open"
              /\ r.tickets[id].AssignedDeveloperId = Null
              /\ r.tickets[id].ReopenCount = 0
              /\ r.tickets[id].IsArchived = FALSE
              /\ r.tickets[id].CreatedByUserId = userId
              /\ SubSeq(r.notifications, 1, Len(notifications))
                   = notifications
              /\ \A u \in UserIds :
                   Cardinality({k \in 1..Len(created) :
                                  /\ created[k].UserId = u
                                  /\ created[k].RelatedTicketId = id})
                     = IF Users[u].Role = "Admin" /\ active[u] THEN 1 ELSE 0
              /\ \A k \in 1..Len(created) : created[k].UserId \in UserIds
         ELSE NothingWritten(r)

\* C29 witness: a requester created a ticket while the second Admin was
\* deactivated: one notification row, for the first Admin.
C29_Witness ==
  /\ last.op = "create"
  /\ Users[last.userId].Role = "EndUser"
  /\ ~active[2]
  /\ tickets[last.ticketId].Status = "Open"
  /\ Len(notifications) = 1
  /\ notifications[1].UserId = 1
  /\ CreateTicket(3, [ProjectId |-> 1, Type |-> "Bug",
                      Priority |-> "Medium"]).code = "Forbidden"
  /\ CreateTicket(5, [ProjectId |-> 2, Type |-> "Bug",
                      Priority |-> "Medium"]).code = "BadRequest"

\* ==================================================================== C30
\* The rows of r are the notifications there were and one more, for
\* userId, about ticket id.
OneRowFor(r, userId, id) ==
  /\ Len(r.notifications) = Len(notifications) + 1
  /\ SubSeq(r.notifications, 1, Len(notifications)) = notifications
  /\ r.notifications[Len(r.notifications)].UserId = userId
  /\ r.notifications[Len(r.notifications)].RelatedTicketId = id
  /\ r.notifications[Len(r.notifications)].IsRead = FALSE

\* C30: an accepted assign creates exactly one notification row, for the
\* developer just assigned; an accepted change of status to Resolved
\* creates exactly one, for the ticket's creator.
C30_OneNotification ==
  \A id \in 1..Len(tickets), userId \in UserIds :
    /\ \A d \in DeveloperIdInputs :
         LET r == AssignTicket(userId, id, d)
         IN r.code = "Ok" => OneRowFor(r, d, id)
    /\ \A dto \in UpdateTicketStatusDtos :
         LET r == UpdateTicketStatus(userId, id, dto)
         IN (r.code = "Ok" /\ dto.Status = "Resolved") =>
              OneRowFor(r, tickets[id].CreatedByUserId, id)

\* C30 witness: developer 3 was assigned and resolved the ticket of
\* requester 5: one TicketAssigned row for 3, one TicketResolved row for 5.
C30_Witness ==
  /\ last.op = "changeStatus"
  /\ last.userId = 3
  /\ tickets[last.ticketId].Status = "Resolved"
  /\ tickets[last.ticketId].CreatedByUserId = 5
  /\ {k \in 1..Len(notifications) : notifications[k].UserId = 3}
       = {k \in 1..Len(notifications) :
            notifications[k].Type = "TicketAssigned"}
  /\ Cardinality({k \in 1..Len(notifications) :
                    notifications[k].Type = "TicketAssigned"}) = 1
  /\ {k \in 1..Len(notifications) : notifications[k].UserId = 5}
       = {Len(notifications)}
  /\ notifications[Len(notifications)].Type = "TicketResolved"

\* ==================================================================== C28
ScenarioStatuses ==
  <<"Open", "InProgress", "Resolved", "Reopened", "InProgress", "Resolved",
    "Closed">>
ScenarioActions ==
  <<"Created", "Assigned", "StatusChanged", "Reopened", "StatusChanged",
    "StatusChanged", "Closed">>

\* The request the scenario makes next is accepted.
ScenarioNextAccepted ==
  CASE Len(history) = 0 ->
         \A dto \in ScenarioTickets :
           CreateTicket(5, dto).code = "Ok"
    [] Len(history) = 1 -> AssignTicket(1, 1, 3).code = "Ok"
    [] Len(history) \in {2, 5} ->
         UpdateTicketStatus(tickets[1].AssignedDeveloperId, 1,
                            [Status |-> "Resolved",
                             Comments |-> NullStr]).code = "Ok"
    [] Len(history) = 3 ->
         ReopenTicket(tickets[1].CreatedByUserId, 1, "still broken").code
           = "Ok"
    [] Len(history) = 4 ->
         UpdateTicketStatus(tickets[1].AssignedDeveloperId, 1,
                            [Status |-> "InProgress",
                             Comments |-> NullStr]).code = "Ok"
    [] Len(history) = 6 ->
         CloseTicket(tickets[1].CreatedByUserId, 1,
                     [Comments |-> NullStr, SatisfactionScore |-> 5,
                      SatisfactionComment |-> "thanks"]).code = "Ok"
    [] OTHER -> TRUE

SameButIsRead(a, b) == [a EXCEPT !.IsRead = b.IsRead] = b

\* `after` keeps every row of `before` in its place, with the same
\* recipient, type, message and ticket; IsRead went from false to true at
\* most, and only on rows of `readers`.
KeepsRows(before, after, readers) ==
  /\ Len(after) >= Len(before)
  /\ \A k \in 1..Len(before) :
       /\ SameButIsRead(before[k], after[k])
       /\ before[k].IsRead => after[k].IsRead
       /\ before[k].IsRead # after[k].IsRead => before[k].UserId \in readers

OwnerOf(id) ==
  IF \E k \in 1..Len(notifications) : notifications[k].Id = id
    THEN notifications[CHOOSE k \in 1..Len(notifications) :
                         notifications[k].Id = id].UserId
    ELSE Null

\* What every request would do to the notifications, in this state.
C24_Requests ==
  /\ \A userId \in UserIds, dto \in CreateTicketDtos :
       KeepsRows(notifications, CreateTicket(userId, dto).notifications, {})
  /\ \A id \in TicketIds :
       LET P(req, r) == KeepsRows(notifications, r.notifications, {})
       IN ForAllRequestsOn(id, P)
  /\ \A userId \in UserIds :
       /\ KeepsRows(notifications, MarkAllAsRead(userId).notifications,
                    {userId})
       /\ Len(MarkAllAsRead(userId).notifications) = Len(notifications)
       /\ \A id \in NotificationIdInputs :
            LET r == MarkAsRead(userId, id)
            IN /\ KeepsRows(notifications, r.notifications, {userId})
               /\ Len(r.notifications) = Len(notifications)
               /\ OwnerOf(id) # userId =>
                    /\ r.code = "NotFound"
                    /\ r.msg = "Notification not found"
                    /\ r.notifications = notifications

\* What a step did to the notifications.
C24_Step ==
  /\ KeepsRows(notifications, notifications', UserIds)
  /\ \A k \in 1..Len(notifications) :
       notifications[k].IsRead # notifications'[k].IsRead =>
         /\ last'.op \in {"markRead", "markAllRead"}
         /\ last'.userId = notifications[k].UserId

\* C24: no request deletes a notification or changes its recipient, type,
\* message or ticket; IsRead only goes from false to true, and only in a
\* markRead or markAllRead of the row's recipient; markRead by anybody
\* else answers NotFound and changes nothing; markAllRead changes the
\* caller's rows only.
C24_StoreOnlyGrows == [] C24_Requests /\ [][C24_Step]_vars

\* C24 witness: the admin has read a notification, a notification of
\* somebody else is unread, and the admin's markRead of it is NotFound.
C24_Witness ==
  /\ last.op = "markRead"
  /\ \E k, j \in 1..Len(notifications) :
       /\ notifications[k].Id = last.notificationId
       /\ notifications[k].UserId = last.userId
       /\ notifications[k].IsRead
       /\ notifications[j].UserId # last.userId
       /\ ~notifications[j].IsRead
       /\ notifications[j].Id \in NotificationIdInputs
       /\ MarkAsRead(last.userId, notifications[j].Id).code = "NotFound"

\* ==================================================================== C25
\* A step that was markRead(userId, id): the same request on the store it
\* left is accepted again and leaves that store; the step wrote to the
\* caller's notifications only.
C25_MarkAsReadStep(userId, id) ==
  last' = [op |-> "markRead", userId |-> userId, ticketId |-> Null,
           notificationId |-> id] =>
    /\ MarkAsRead(userId, id).code = "Ok"
    /\ notifications' = MarkAsRead(userId, id).notifications
    /\ MarkAsRead(userId, id)'.code = "Ok"
    /\ MarkAsRead(userId, id)'.notifications = notifications'
    /\ UNCHANGED <<tickets, history, messages, active>>
    /\ \A k \in 1..Len(notifications) :
         notifications[k].UserId # userId =>
           notifications'[k] = notifications[k]

C25_MarkAllAsReadStep(userId) ==
  last' = [op |-> "markAllRead", userId |-> userId, ticketId |-> Null,
           notificationId |-> Null] =>
    /\ MarkAllAsRead(userId).code = "Ok"
    /\ notifications' = MarkAllAsRead(userId).notifications
    /\ MarkAllAsRead(userId)'.code = "Ok"
    /\ MarkAllAsRead(userId)'.notifications = notifications'
    /\ GetUnreadCount(userId)' = 0
    /\ UNCHANGED <<tickets, history, messages, active>>
    /\ \A k \in 1..Len(notifications) :
         notifications[k].UserId # userId =>
           notifications'[k] = notifications[k]

C25_Step ==
  /\ \A userId \in UserIds, id \in NotificationIdInputs :
       C25_MarkAsReadStep(userId, id)
  /\ \A userId \in UserIds : C25_MarkAllAsReadStep(userId)

\* C25: markRead and markAllRead are idempotent: the second of two equal
\* calls is accepted like the first and leaves the store the first left;
\* neither writes to tickets, history, messages or the notifications of
\* other users.
C25_MarksIdempotent == [][C25_Step]_vars

\* C25 witness: markAllRead by the admin has marked a row while a row of
\* another user is still unread, and a second markAllRead changes nothing.
C25_Witness ==
  /\ last.op = "markAllRead"
  /\ \E k, j \in 1..Len(notifications) :
       /\ notifications[k].UserId = last.userId
       /\ notifications[k].IsRead
       /\ notifications[j].UserId # last.userId
       /\ ~notifications[j].IsRead
  /\ MarkAllAsRead(last.userId).notifications = notifications
  /\ MarkAllAsRead(last.userId).code = "Ok"

\* ==================================================================== C26
\* The unread rows of a user.
Unread(userId) ==
  {k \in 1..Len(notifications) :
     notifications[k].UserId = userId /\ ~notifications[k].IsRead}

\* C26: GetNotifications gives rows of the caller that are unread, each
\* once, newest first, 50 at most and then the 50 newest; GetUnreadCount
\* is the number of all the caller's unread rows.
C26_ListAndCount ==
  \A userId \in UserIds :
    LET list == GetNotifications(userId)
        listed == {list[i].Id : i \in 1..Len(list)}
    IN /\ listed \subseteq Unread(userId)
       /\ \A i \in 1..Len(list) : list[i] = notifications[list[i].Id]
       /\ Cardinality(listed) = Len(list)
       /\ \A i \in 1..Len(list) - 1 :
            list[i].CreatedAt >= list[i + 1].CreatedAt
       /\ Len(list) = IF Cardinality(Unread(userId)) < 50
                        THEN Cardinality(Unread(userId)) ELSE 50
       /\ \A k \in Unread(userId) \ listed : \A i \in 1..Len(list) :
            notifications[k].CreatedAt <= list[i].CreatedAt
       /\ GetUnreadCount(userId) = Cardinality(Unread(userId))

\* C26 witness: the admin has read a notification and has 51 unread ones;
\* the list has the 50 newest and the count is 51.
C26_Witness ==
  /\ last.op = "markRead"
  /\ last.userId = 1
  /\ notifications[last.notificationId].IsRead
  /\ GetUnreadCount(1) = 51
  /\ Len(GetNotifications(1)) = 50
  /\ GetNotifications(1)[1].Id = Len(notifications)
  /\ \E k \in Unread(1) : \A i \in 1..50 : GetNotifications(1)[i].Id # k

\* ==================================================================== C21
\* Row k is in the store, for this user, and GetNotifications gives it
\* to the user.
StoredAndListed(userId, id) ==
  /\ id \in 1..Len(notifications)
  /\ notifications[id].Id = id
  /\ notifications[id].UserId = userId
  /\ \E i \in 1..Len(GetNotifications(userId)) :
       GetNotifications(userId)[i] = notifications[id]

\* Every message a client has received, and every message about to be
\* sent, is about a stored row of that user.
C21_PushedAreStored ==
  /\ \A m \in pushed : StoredAndListed(m.userId, m.id)
  /\ reqs[1].pc = "notify" =>
       \A i \in 1..Len(reqs[1].pushes) :
         StoredAndListed(reqs[1].pushes[i].userId, reqs[1].pushes[i].id)

\* A step in which a client receives a message: the row was stored
\* before the step. A step that takes a message off the pushes, received
\* or not: the row is still stored and listed for its user afterwards.
C21_Step ==
  /\ \A m \in pushed' \ pushed : StoredAndListed(m.userId, m.id)
  /\ (reqs[1].pc = "notify" /\ reqs[1].pushes # <<>>
        /\ reqs'[1] # reqs[1]) =>
       \A m \in {Head(reqs[1].pushes)} : StoredAndListed(m.userId, m.id)'

\* C21: a notification is pushed only after its row is stored: no client
\* receives a message whose id is not in the store, and a recipient
\* without a connection has the row and gets it from GetNotifications.
C21_RowBeforePush == [] C21_PushedAreStored /\ [][C21_Step]_vars

\* C21 witness: a request returned Ok after notifying two users; one of
\* them was connected and received the message, the other was not
\* connected, received none, and gets the row from GetNotifications.
C21_Witness ==
  /\ reqs[1].pc = "done"
  /\ reqs[1].code = "Ok"
  /\ \E m \in pushed : m.id > reqs[1].base
  /\ \E k \in (reqs[1].base + 1)..Len(notifications) :
       /\ notifications[k].UserId \in reqs[1].attempted
       /\ notifications[k].UserId \notin online
       /\ \A m \in pushed : m.id # k
       /\ StoredAndListed(notifications[k].UserId, k)

\* ==================================================================== C22
\* C22: when a push to one recipient of an event has failed, every
\* recipient of the event has its row and the push to every recipient was
\* attempted.
C22_NoNotificationLost ==
  (reqs[1].pc = "done" /\ reqs[1].failed = "push") =>
    \A i \in 1..Len(reqs[1].recipients) :
      /\ \E k \in (reqs[1].base + 1)..Len(notifications) :
           /\ notifications[k].UserId = reqs[1].recipients[i]
           /\ notifications[k].RelatedTicketId = reqs[1].ticketId
      /\ reqs[1].recipients[i] \in reqs[1].attempted

\* ==================================================================== C23
\* C23: a request whose ticket and history row are saved answers Ok,
\* whatever happened to its notifications, and the ticket and the history
\* row stay.
C23_MutationSucceeds ==
  reqs[1].pc = "done" =>
    /\ reqs[1].code = "Ok"
    /\ tickets[reqs[1].ticketId] = reqs[1].plan.entity
    /\ history[reqs[1].row].TicketId = reqs[1].ticketId
    /\ history[reqs[1].row].Action = reqs[1].plan.action

\* ==================================================================== C31
\* `after` has every row of `before`, in its place and as it was.
Extends(before, after) ==
  /\ Len(after) >= Len(before)
  /\ SubSeq(after, 1, Len(before)) = before

\* The history rows of a ticket, in the order of the table.
HistoryOf(rows, id) == SelectSeq(rows, LAMBDA h : h.TicketId = id)

C31_Requests ==
  /\ \A userId \in UserIds, dto \in CreateTicketDtos :
       Extends(history, CreateTicket(userId, dto).history)
  /\ \A id \in TicketIds :
       LET P(req, r) == Extends(history, r.history)
       IN ForAllRequestsOn(id, P)

C31_Step ==
  /\ Extends(history, history')
  /\ \A t \in TicketIds :
       Extends(HistoryOf(history, t), HistoryOf(history', t))

\* C31: the audit log is append-only: whatever a request does, and
\* whatever step is taken, the history rows of a ticket are the rows it
\* had, unchanged and in their places, followed by new ones.
C31_AppendOnly == [] C31_Requests /\ [][C31_Step]_vars

\* C31 witness: a ticket has three history rows, the first still the
\* Created row.
C31_Witness ==
  /\ Len(history) >= 3
  /\ history[1].Action = "Created"
  /\ history[Len(history)].Action # "Created"
  /\ last.op \in {"changeStatus", "reopen", "close"}

\* ==================================================================== C32
SatisfactionFields == {"SatisfactionScore", "SatisfactionComment", "RatedAt"}

C32_ScoreOnClosed ==
  \A id \in 1..Len(tickets) :
    /\ tickets[id].SatisfactionScore = Null
         \/ tickets[id].SatisfactionScore \in 1..5
    /\ tickets[id].SatisfactionScore # Null =>
         /\ tickets[id].Status = "Closed"
         /\ tickets[id].RatedAt = tickets[id].ClosedAt
    /\ tickets[id].SatisfactionScore = Null =>
         /\ tickets[id].SatisfactionComment = NullStr
         /\ tickets[id].RatedAt = Null

C32_Step ==
  \A id \in 1..Len(tickets), f \in SatisfactionFields :
    tickets'[id][f] # tickets[id][f] =>
      /\ last'.op = "close"
      /\ last'.ticketId = id
      /\ tickets[id].Status # "Closed"
      /\ tickets'[id].Status = "Closed"
      /\ tickets[id].SatisfactionScore = Null

\* C32: with requests one at a time, SatisfactionScore is unset or in
\* 1..5 and set on Closed tickets only; score, comment and RatedAt are
\* written by close alone, in the step that makes the ticket Closed, and
\* not changed after that.
C32_ScoreAtCloseOnly == [] C32_ScoreOnClosed /\ [][C32_Step]_vars

\* C32 witness: a ticket was closed with score 5 and was archived after
\* that; the score is still there.
C32_Witness ==
  /\ last.op = "archive"
  /\ tickets[last.ticketId].SatisfactionScore = 5
  /\ tickets[last.ticketId].SatisfactionComment = "thanks"
  /\ tickets[last.ticketId].Status = "Closed"

\* ==================================================================== C35
OwnTicketMessage == "Developer cannot reopen their own assigned ticket"

\* C35: no reopen request is refused with "Developer cannot reopen their
\* own assigned ticket": the developer of a ticket has the Developer role,
\* and a Developer does not get past [Authorize(Roles = "EndUser,Admin")].
C35_GuardNeverFires ==
  /\ \A id \in 1..Len(tickets) :
       tickets[id].AssignedDeveloperId # Null =>
         /\ tickets[id].AssignedDeveloperId \in UserIds
         /\ GetCurrentUserRole(tickets[id].AssignedDeveloperId) = "Developer"
  /\ \A userId \in UserIds, id \in TicketIdInputs, comment \in ReopenComments :
       /\ ReopenTicket(userId, id, comment).msg # OwnTicketMessage
       /\ ReopenTicketPlan(userId, id, comment, clock + 1).msg
            # OwnTicketMessage

\* C35 witness: the developer of a Resolved ticket asks to reopen it and
\* is refused by the role check; the creator's reopen is accepted.
C35_Witness ==
  \E id \in 1..Len(tickets) :
    /\ tickets[id].Status = "Resolved"
    /\ tickets[id].AssignedDeveloperId # Null
    /\ ReopenTicket(tickets[id].AssignedDeveloperId, id, "still broken").code
         = "Forbidden"
    /\ ReopenTicket(tickets[id].CreatedByUserId, id, "still broken").code
         = "Ok"

\* ==================================================================== C36
ReopenedRows(id) ==
  {k \in 1..Len(history) :
     history[k].TicketId = id /\ history[k].Action = "Reopened"}

\* C36: with requests one at a time, ReopenCount of a ticket is the
\* number of its history rows with action Reopened.
C36_ReopenCountIsReopenedRows ==
  \A id \in 1..Len(tickets) :
    tickets[id].ReopenCount = Cardinality(ReopenedRows(id))

\* C36 witness: the admin took a ticket to Reopened with changeStatus (a
\* StatusChanged row) and later the ticket was reopened: one Reopened row,
\* ReopenCount 1.
C36_Witness ==
  /\ last.op = "reopen"
  /\ tickets[last.ticketId].ReopenCount = 1
  /\ Cardinality(ReopenedRows(last.ticketId)) = 1
  /\ \E k \in 1..Len(history) :
       /\ history[k].TicketId = last.ticketId
       /\ history[k].Action = "StatusChanged"
       /\ history[k].NewValue = "Reopened"

\* ==================================================================== C37
C37_ClosedAtIffClosed ==
  \A id \in 1..Len(tickets) :
    (tickets[id].ClosedAt # Null) <=> (tickets[id].Status = "Closed")

C37_Step ==
  \A id \in 1..Len(tickets) :
    /\ (tickets[id].Status # "Closed" /\ tickets'[id].Status = "Closed") =>
         /\ tickets'[id].ClosedAt # Null
         /\ last'.op \in {"close", "changeStatus"}
    /\ tickets'[id].ClosedAt # tickets[id].ClosedAt =>
         /\ tickets[id].Status # "Closed"
         /\ tickets'[id].Status = "Closed"

\* C37: with requests one at a time, ClosedAt is set exactly on the
\* Closed tickets: close and an Admin's changeStatus to Closed set it, and
\* no step sets it on a ticket it does not close.
C37_ClosedAtOnClosed == [] C37_ClosedAtIffClosed /\ [][C37_Step]_vars

\* C37 witness: the admin closed a ticket with changeStatus.
C37_Witness ==
  /\ last.op = "changeStatus"
  /\ tickets[last.ticketId].Status = "Closed"
  /\ tickets[last.ticketId].ClosedAt # Null

\* ==================================================================== C38
\* C38: a ticket that is InProgress, Resolved or Reopened has a
\* developer, and the developer of a ticket has the Developer role.
C38_WorkedHasDeveloper ==
  \A id \in 1..Len(tickets) :
    /\ tickets[id].Status \in {"InProgress", "Resolved", "Reopened"} =>
         tickets[id].AssignedDeveloperId # Null
    /\ tickets[id].AssignedDeveloperId # Null =>
         GetCurrentUserRole(tickets[id].AssignedDeveloperId) = "Developer"

\* ==================================================================== C33
\* Every message a user has received is about a row addressed to that
\* user.
C33_ReceivedOwn ==
  \A m \in pushed :
    /\ m.id \in 1..Len(notifications)
    /\ notifications[m.id].UserId = m.userId

\* A step in which messages are received is the SendAsync of one row: the
\* receivers are connected, and they are the row's user. A user joins and
\* leaves no group but one, their own.
C33_Step ==
  /\ \A m \in pushed' \ pushed :
       /\ m.userId \in online
       /\ reqs[1].pc = "notify"
       /\ reqs[1].pushes # <<>>
       /\ m.id = Head(reqs[1].pushes).id
       /\ m.userId = notifications[m.id].UserId
  /\ \A userId \in UserIds :
       {g \in {GroupName(u) : u \in UserIds} : userId \in GroupMembers(g)}
         = IF userId \in online THEN {GroupName(userId)} ELSE {}

\* C33: a push reaches only connections of the notification's recipient:
\* a connection is in the group of its own user and in no other, every
\* push goes to the group of the row's user, and no user receives a
\* message about a row addressed to somebody else.
C33_PushToRecipientOnly == [] C33_ReceivedOwn /\ [][C33_Step]_vars

\* C33 witness: two users are connected, a notification for one of them
\* was pushed, and only that user received it.
C33_Witness ==
  /\ online = HubUsers
  /\ \E m \in pushed :
       /\ notifications[m.id].UserId = m.userId
       /\ \A u \in online \ {m.userId} :
            [userId |-> u, id |-> m.id] \notin pushed

\* ==================================================================== C39
ListIds(list) == {list[i].Id : i \in 1..Len(list)}

C39_Step ==
  /\ Cardinality(ListIds(client'.list)) = Len(client'.list)
  /\ \A id \in ListIds(client.list) :
       [userId |-> ClientUser, id |-> id] \in pushed =>
         \/ id \in ListIds(client'.list)
         \/ notifications'[id].IsRead

\* C39: whatever the order of the steps of fetches and pushes, no step
\* leaves two entries with one id in the client's list, and an entry of a
\* notification that was pushed leaves the list only when the notification
\* is marked read.
C39_PushedStay == [][C39_Step]_vars

\* ==================================================================== C34
\* The unread notifications of the user among the first n rows.
UnreadUpTo(n) ==
  {k \in 1..n : notifications[k].UserId = ClientUser
                /\ ~notifications[k].IsRead}

C34_Step ==
  /\ (client.conn = "reconnecting" /\ client'.conn = "connected") =>
       /\ client'.fetches["reconnect"].pc = "sent"
       /\ client'.fetches["reconnect"].upto = Len(notifications)
  /\ (client.fetches["reconnect"].pc = "read"
        /\ client'.fetches["reconnect"].pc = "done") =>
       /\ client'.list = client.fetches["reconnect"].result
       /\ Cardinality(UnreadUpTo(Len(notifications))) <= PageSize =>
            UnreadUpTo(client.fetches["reconnect"].upto)
              \subseteq ListIds(client'.list)

C34_Settled ==
  client.fetches["reconnect"].pc = "sent"
    ~> client.fetches["reconnect"].pc \in {"done", "free"}

====
